---- MODULE Spec2Model ----
(***************************************************************************)
(* JoyDB (mini-rdbms): the table data model (rows, unique indexes,         *)
(* auto-increment), the per-table reader-writer lock, and the engine       *)
(* session with its current-database reference.                            *)
(*                                                                         *)
(* A Go row (map[string]interface{}) is a function whose DOMAIN is the set *)
(* of keys present; an absent key is SQL NULL.  Row positions are 1-based  *)
(* here (the Go slice is 0-based).                                         *)
(***************************************************************************)
EXTENDS Integers, Sequences, FiniteSets, TLC

VARIABLES Rows, UniqueIndexes, LastInsertID, Dirty, result, maxSeen

VARIABLES mu, pc, stmt, inflight, seen

VARIABLES disk, loaded, db, using, out

VARIABLES rmu, rpc, rop, dcont, mcont, ret, gone

VARIABLES wdir, wfile, wtmp, wjob, wstage, crashed

VARIABLES input, output

VARIABLES rowData, idxData, amu, apc, got

VARIABLES content, saved, dirtyFlag, saver

(* one table: rows, indexes, counter, dirty flag; result and maxSeen are   *)
(* history variables                                                       *)
tvars == <<Rows, UniqueIndexes, LastInsertID, Dirty, result, maxSeen>>

(* table locks and the statements in flight; seen is a history variable    *)
lvars == <<mu, pc, stmt, inflight, seen>>

(* databases on disk, the registry and the sessions' current database;     *)
(* using and out are history variables                                     *)
evars == <<disk, loaded, db, using, out>>

(* the registry mutex, the registry call each session is inside, and the   *)
(* content of each database on disk and in memory; ret and gone are        *)
(* history variables                                                       *)
rvars == <<rmu, rpc, rop, dcont, mcont, ret, gone>>

(* the files of one database directory, their temporary siblings, and the  *)
(* writes the storage call in progress has still to make                   *)
wvars == <<wdir, wfile, wtmp, wjob, wstage, crashed>>

(* the argument and the result of a function applied on its own *)
pvars == <<input, output>>

(* one row map and one unique-index map of a table, the table's lock, the  *)
(* read or write each session is inside, and the rows its last read        *)
(* returned                                                                *)
avars == <<rowData, idxData, amu, apc, got>>

(* per table: the content in memory and in its files (as the number of the *)
(* statement that produced it) and the dirty flag; and the save in         *)
(* progress                                                                *)
svars == <<content, saved, dirtyFlag, saver>>

yvars == <<avars, svars>>

(* what the table, lock and engine steps leave alone *)
xvars == <<rvars, wvars, pvars, yvars>>

vars == <<tvars, lvars, evars, xvars>>

----------------------------------------------------------------------------
(* Bounds *)

MaxId == 2

MaxRows == 2

----------------------------------------------------------------------------
(* Schema of the bootstrap table users(id, username, is_active)            *)

Columns ==
    << [Name |-> "id",       PrimaryKey |-> TRUE,  Unique |-> TRUE,
        NotNull |-> TRUE,  AutoIncrement |-> TRUE],
       [Name |-> "username", PrimaryKey |-> FALSE, Unique |-> TRUE,
        NotNull |-> TRUE,  AutoIncrement |-> FALSE],
       [Name |-> "is_active", PrimaryKey |-> FALSE, Unique |-> FALSE,
        NotNull |-> FALSE, AutoIncrement |-> FALSE] >>

ColNames == {Columns[i].Name : i \in 1..Len(Columns)}

Col(c) == CHOOSE col \in {Columns[i] : i \in 1..Len(Columns)} : col.Name = c

UniqueCols == {c \in ColNames : Col(c).Unique \/ Col(c).PrimaryKey}

NotNullCols == {c \in ColNames : Col(c).NotNull \/ Col(c).PrimaryKey}

AutoIncCols == {c \in ColNames : Col(c).AutoIncrement}

IdVals == 1..MaxId

NameVals == {"alice", "bob"}

BoolVals == {TRUE, FALSE}

ColVals(c) ==
    CASE c = "id" -> IdVals
      [] c = "username" -> NameVals
      [] c = "is_active" -> BoolVals

(* at most one value: the empty set stands for a key that is not supplied *)
Opt(S) == {{}} \cup {{v} : v \in S}

MkRow(I, N, A) ==
    [c \in {x \in ColNames : \/ x = "id" /\ I # {}
                             \/ x = "username" /\ N # {}
                             \/ x = "is_active" /\ A # {}} |->
        CASE c = "id" -> CHOOSE v \in I : TRUE
          [] c = "username" -> CHOOSE v \in N : TRUE
          [] c = "is_active" -> CHOOSE v \in A : TRUE]

Has(row, c) == c \in DOMAIN row

----------------------------------------------------------------------------
(* Unique indexes: column -> (value -> row position)                       *)

KeysOf(rows, c) == {rows[i][c] : i \in {j \in 1..Len(rows) : Has(rows[j], c)}}

PosOf(rows, c, v) ==
    CHOOSE i \in 1..Len(rows) :
        /\ Has(rows[i], c) /\ rows[i][c] = v
        /\ \A j \in 1..Len(rows) : (Has(rows[j], c) /\ rows[j][c] = v) => j <= i

BuildIndex(rows, c) == [v \in KeysOf(rows, c) |-> PosOf(rows, c, v)]

BuildDatabaseIndexes(rows) == [c \in UniqueCols |-> BuildIndex(rows, c)]

NoDuplicates(rows, c) ==
    \A i, j \in 1..Len(rows) :
        (i # j /\ Has(rows[i], c) /\ Has(rows[j], c)) => rows[i][c] # rows[j][c]

MaxOf(S) == IF S = {} THEN 0 ELSE CHOOSE m \in S : \A x \in S : x <= m

----------------------------------------------------------------------------
(* Row helpers *)

IdxPut(idx, v, p) == [x \in (DOMAIN idx) \cup {v} |-> IF x = v THEN p ELSE idx[x]]

IdxRemove(idx, vs) == [x \in (DOMAIN idx) \ vs |-> idx[x]]

SeenIds(rows) == UNION {KeysOf(rows, c) : c \in AutoIncCols}

(* outcome of the last statement: the error returned, the rows the        *)
(* predicate matched, whether an AUTO_INCREMENT value was assigned, whether *)
(* an INSERT carried a unique value already in the table, and whether an    *)
(* UPDATE assigned a UNIQUE column                                          *)
Res(op, err, matched, auto, dup, setsUnique) ==
    [op |-> op, err |-> err, matched |-> matched, auto |-> auto,
     dup |-> dup, setsUnique |-> setsUnique]

(* rows affected, as returned to the caller *)
RowsAffected(res) == IF res.err = "none" THEN res.matched ELSE 0

----------------------------------------------------------------------------
(* Load: the table as LoadTable leaves it, followed by the index build of  *)
(* Registry.Get.  last_insert_id is taken from the manifest as it stands.  *)

FullRows ==
    {MkRow(I, N, A) : I \in Opt(IdVals) \ {{}}, N \in Opt(NameVals) \ {{}},
                      A \in Opt(BoolVals)}

ValidateRow(row) == \A c \in NotNullCols : Has(row, c)

LoadableRows ==
    {rows \in UNION {[1..n -> FullRows] : n \in 0..MaxRows} :
        /\ \A i \in 1..Len(rows) : ValidateRow(rows[i])
        /\ \A c \in UniqueCols : NoDuplicates(rows, c)}

LoadTable(rows, metaLastInsertID) ==
    /\ Rows = rows
    /\ LastInsertID = metaLastInsertID
    /\ UniqueIndexes = BuildDatabaseIndexes(rows)
    /\ Dirty = FALSE
    /\ result = Res("LOAD", "none", 0, FALSE, FALSE, FALSE)
    /\ maxSeen = MaxOf(SeenIds(rows))

(* the files of a table as bootstrap or an earlier save wrote them: the    *)
(* manifest counter is not below the ids of the stored rows                *)
TableInit ==
    \E rows \in LoadableRows, metaLastInsertID \in 0..MaxId :
        /\ metaLastInsertID >= MaxOf(SeenIds(rows))
        /\ LoadTable(rows, metaLastInsertID)

----------------------------------------------------------------------------
(* Insert *)

(* auto-increment: a missing AUTO_INCREMENT column takes LastInsertID + 1  *)
(* and the counter is advanced in place                                     *)
AutoIncrementLast(row, last) ==
    IF \E c \in AutoIncCols : ~Has(row, c) THEN last + 1 ELSE last

AutoIncrementRow(row, last) ==
    [c \in (DOMAIN row) \cup AutoIncCols |->
        IF Has(row, c) THEN row[c] ELSE last + 1]

NotNullCheckSkipped(row, c) == TRUE

NotNullCheck(row, c) == Col(c).NotNull => Has(row, c)

PrimaryKeyPresent(row, c) == Col(c).PrimaryKey => Has(row, c)

UniqueCheckPrimaryOnly(idxs, c, row) ==
    (Col(c).PrimaryKey /\ Has(row, c)) => row[c] \notin DOMAIN idxs[c]

UniqueCheck(idxs, c, row) ==
    (c \in UniqueCols /\ Has(row, c)) => row[c] \notin DOMAIN idxs[c]

InsertCheck(row, idxs) ==
    IF \E c \in ColNames : ~NotNullCheck(row, c) \/ ~PrimaryKeyPresent(row, c)
        THEN "NotNullViolation"
    ELSE IF \E c \in ColNames : Col(c).PrimaryKey /\ ~UniqueCheck(idxs, c, row)
        THEN "PrimaryKeyViolation"
    ELSE IF \E c \in ColNames : ~UniqueCheck(idxs, c, row)
        THEN "UniqueViolation"
    ELSE "none"

(* a complete row one of whose unique values some stored row already holds *)
DuplicatesExisting(row, rows) ==
    /\ \A c \in NotNullCols : Has(row, c)
    /\ \E c \in UniqueCols : Has(row, c) /\ row[c] \in KeysOf(rows, c)

InsertIndexes(idxs, row, pos) ==
    [c \in UniqueCols |-> IF Has(row, c) THEN IdxPut(idxs[c], row[c], pos) ELSE idxs[c]]

Insert(row) ==
    LET auto == \E c \in AutoIncCols : ~Has(row, c)
        last == AutoIncrementLast(row, LastInsertID)
        full == AutoIncrementRow(row, LastInsertID)
        err  == InsertCheck(full, UniqueIndexes)
    IN  /\ last <= MaxId
        /\ err = "none" => Len(Rows) < MaxRows
        /\ LastInsertID' = last
        /\ result' = Res("INSERT", err, 1, auto, DuplicatesExisting(full, Rows), FALSE)
        /\ IF err = "none"
             THEN /\ Rows' = Append(Rows, full)
                  /\ UniqueIndexes' = InsertIndexes(UniqueIndexes, full, Len(Rows) + 1)
                  /\ Dirty' = TRUE
             ELSE UNCHANGED <<Rows, UniqueIndexes, Dirty>>
        /\ maxSeen' = MaxOf({maxSeen} \cup SeenIds(Rows'))
        /\ UNCHANGED <<lvars, evars, xvars>>

----------------------------------------------------------------------------
(* Update *)

SelAll(rows) == 1..Len(rows)

SelEq(rows, c, v) == {i \in 1..Len(rows) : Has(rows[i], c) /\ rows[i][c] = v}

Overlay(row, upd, nulls) ==
    [c \in ((DOMAIN row) \ nulls) \cup (DOMAIN upd) |->
        IF c \in DOMAIN upd THEN upd[c] ELSE row[c]]

Proposed(rows, sel, upd, nulls) ==
    [i \in 1..Len(rows) |-> IF i \in sel THEN Overlay(rows[i], upd, nulls) ELSE rows[i]]

(* checks each new value against the rows outside the selection only *)
UpdateCheckNoBatch(rows, sel, upd, nulls) ==
    IF sel = {} THEN "none"
    ELSE IF nulls \cap NotNullCols # {} THEN "NotNullViolation"
    ELSE IF \E c \in (DOMAIN upd) \cap UniqueCols :
                \E j \in (1..Len(rows)) \ sel : Has(rows[j], c) /\ rows[j][c] = upd[c]
        THEN "UniqueViolation"
    ELSE "none"

UpdateCheck(rows, sel, upd, nulls) ==
    IF sel = {} THEN "none"
    ELSE IF nulls \cap NotNullCols # {} THEN "NotNullViolation"
    ELSE IF \E c \in (DOMAIN upd) \cap UniqueCols :
                ~NoDuplicates(Proposed(rows, sel, upd, nulls), c)
        THEN "UniqueViolation"
    ELSE "none"

UpdateIndexes(idxs, rows, sel, upd, nulls) ==
    [c \in UniqueCols |->
        IF c \in (DOMAIN upd) \cup nulls
          THEN LET olds == {rows[i][c] : i \in {j \in sel : Has(rows[j], c)}}
                   kept == IdxRemove(idxs[c], olds)
               IN  IF c \in DOMAIN upd /\ sel # {}
                     THEN IdxPut(kept, upd[c], CHOOSE i \in sel : TRUE)
                     ELSE kept
          ELSE idxs[c]]

(* applies the assignments row by row and stops at the first violation *)
UpdateRowByRow(sel, upd, nulls) ==
    LET err == UpdateCheck(Rows, sel, upd, nulls)
        first == IF sel = {} THEN {} ELSE {CHOOSE i \in sel : \A j \in sel : i <= j}
        done == IF err = "none" THEN sel ELSE first
    IN  /\ result' = Res("UPDATE", err, Cardinality(sel), FALSE, FALSE,
                         (DOMAIN upd) \cap UniqueCols # {})
        /\ Rows' = Proposed(Rows, done, upd, {})
        /\ UniqueIndexes' = BuildDatabaseIndexes(Rows')
        /\ Dirty' = TRUE
        /\ UNCHANGED LastInsertID
        /\ maxSeen' = MaxOf({maxSeen} \cup SeenIds(Rows'))
        /\ UNCHANGED <<lvars, evars, xvars>>

Update(sel, upd, nulls) ==
    LET err == UpdateCheck(Rows, sel, upd, nulls)
    IN  /\ result' = Res("UPDATE", err, Cardinality(sel), FALSE, FALSE,
                         (DOMAIN upd) \cap UniqueCols # {})
        /\ IF err = "none"
             THEN /\ Rows' = Proposed(Rows, sel, upd, nulls)
                  /\ UniqueIndexes' = UpdateIndexes(UniqueIndexes, Rows, sel, upd, nulls)
                  /\ Dirty' = TRUE
             ELSE UNCHANGED <<Rows, UniqueIndexes, Dirty>>
        /\ UNCHANGED LastInsertID
        /\ maxSeen' = MaxOf({maxSeen} \cup SeenIds(Rows'))
        /\ UNCHANGED <<lvars, evars, xvars>>

----------------------------------------------------------------------------
(* Delete *)

RECURSIVE Remaining(_, _, _)
RemainingButFirst(rows, sel, i) ==
    IF sel = {} THEN rows
    ELSE LET p == CHOOSE x \in sel : \A y \in sel : x <= y
         IN  [j \in 1..(Len(rows) - 1) |-> IF j < p THEN rows[j] ELSE rows[j + 1]]

Remaining(rows, sel, i) ==
    IF i > Len(rows) THEN << >>
    ELSE IF i \in sel THEN Remaining(rows, sel, i + 1)
    ELSE <<rows[i]>> \o Remaining(rows, sel, i + 1)

rebuildIndexesSkipped(rows) == UniqueIndexes

rebuildIndexesUnsafe(rows) == BuildDatabaseIndexes(rows)

Delete(sel) ==
    /\ Rows' = Remaining(Rows, sel, 1)
    /\ UniqueIndexes' = rebuildIndexesUnsafe(Rows')
    /\ Dirty' = TRUE
    /\ result' = Res("DELETE", "none", Cardinality(sel), FALSE, FALSE, FALSE)
    /\ UNCHANGED <<LastInsertID, maxSeen>>
    /\ UNCHANGED <<lvars, evars, xvars>>

----------------------------------------------------------------------------
(* Sessions and the per-table reader-writer lock (Table.mu, a Go           *)
(* sync.RWMutex).  A call of Lock first excludes new readers and then      *)
(* waits for the readers that hold the lock; RLock waits while a writer    *)
(* holds the lock or waits for it.                                         *)

MaxSessions == 2

Sessions == 1..MaxSessions

NoSession == 0

Tables == {"users", "orders"}

ReadKinds == {"SCAN", "INDEX", "JOIN"}

WriteKinds == {"INSERT", "UPDATE", "DELETE"}

NoStmt == [kind |-> "NONE", left |-> "users", right |-> "users"]

Statements ==
    {[kind |-> k, left |-> t, right |-> t] :
        k \in {"SCAN", "INDEX"} \cup WriteKinds, t \in Tables}
    \cup {[kind |-> "JOIN", left |-> l, right |-> r] : l \in Tables, r \in Tables}

TablesOf(st) == {st.left, st.right}

RWMutex == [w |-> NoSession, r |-> [s \in Sessions |-> 0]]

LockInit ==
    /\ mu = [t \in Tables |-> RWMutex]
    /\ pc = [s \in Sessions |-> "idle"]
    /\ stmt = [s \in Sessions |-> NoStmt]
    /\ inflight = [t \in Tables |-> "none"]
    /\ seen = [s \in Sessions |-> "nothing"]

RLockNoWait(t) == TRUE

(* RLock returns at once unless a writer holds the lock or waits for it *)
CanRLock(t) == mu[t].w = NoSession

(* Lock, first half: one writer at a time gets past the writers' mutex *)
CanLock(t) == mu[t].w = NoSession

(* Lock, second half: the readers that held the lock have released it *)
ReadersGone(t) == \A q \in Sessions : mu[t].r[q] = 0

(* the session starts to execute a statement *)
Begin(s, st) ==
    /\ pc[s] = "idle"
    /\ pc' = [pc EXCEPT ![s] = "lock"]
    /\ stmt' = [stmt EXCEPT ![s] = st]
    /\ UNCHANGED <<mu, inflight, seen>>
    /\ UNCHANGED <<tvars, evars, xvars>>

(* t.RLock() of a Scan or an index lookup; the first RLock of a JOIN *)
RLock(s) ==
    /\ pc[s] = "lock" /\ stmt[s].kind \in ReadKinds
    /\ CanRLock(stmt[s].left)
    /\ mu' = [mu EXCEPT ![stmt[s].left].r[s] = @ + 1]
    /\ pc' = [pc EXCEPT ![s] = IF stmt[s].kind = "JOIN" THEN "lock2" ELSE "read"]
    /\ UNCHANGED <<stmt, inflight, seen>>
    /\ UNCHANGED <<tvars, evars, xvars>>

(* the JOIN's shared lock on its right table, the left one being held *)
RLockRight(s) ==
    /\ pc[s] = "lock2"
    /\ CanRLock(stmt[s].right)
    /\ mu' = [mu EXCEPT ![stmt[s].right].r[s] = @ + 1]
    /\ pc' = [pc EXCEPT ![s] = "read"]
    /\ UNCHANGED <<stmt, inflight, seen>>
    /\ UNCHANGED <<tvars, evars, xvars>>

(* the reader reads rows and unique indexes of its tables *)
Read(s) ==
    /\ pc[s] = "read"
    /\ seen' = [seen EXCEPT ![s] =
                  IF \E t \in TablesOf(stmt[s]) : inflight[t] # "none"
                    THEN "partial" ELSE "whole"]
    /\ pc' = [pc EXCEPT ![s] = "unlock"]
    /\ UNCHANGED <<mu, stmt, inflight>>
    /\ UNCHANGED <<tvars, evars, xvars>>

(* the deferred RUnlock calls; the statement returns its rows *)
RUnlock(s) ==
    /\ pc[s] = "unlock" /\ stmt[s].kind \in ReadKinds
    /\ mu' = [t \in Tables |->
                IF t \in TablesOf(stmt[s]) THEN [mu[t] EXCEPT !.r[s] = 0] ELSE mu[t]]
    /\ pc' = [pc EXCEPT ![s] = "idle"]
    /\ stmt' = [stmt EXCEPT ![s] = NoStmt]
    /\ seen' = [seen EXCEPT ![s] = "nothing"]
    /\ UNCHANGED inflight
    /\ UNCHANGED <<tvars, evars, xvars>>

(* table.Lock(), first half *)
Lock(s) ==
    /\ pc[s] = "lock" /\ stmt[s].kind \in WriteKinds
    /\ CanLock(stmt[s].left)
    /\ mu' = [mu EXCEPT ![stmt[s].left].w = s]
    /\ pc' = [pc EXCEPT ![s] = "wait"]
    /\ UNCHANGED <<stmt, inflight, seen>>
    /\ UNCHANGED <<tvars, evars, xvars>>

(* table.Lock(), second half: Lock returns *)
LockAcquired(s) ==
    /\ pc[s] = "wait"
    /\ ReadersGone(stmt[s].left)
    /\ pc' = [pc EXCEPT ![s] = "apply"]
    /\ UNCHANGED <<mu, stmt, inflight, seen>>
    /\ UNCHANGED <<tvars, evars, xvars>>

(* a constraint check fails: nothing is applied *)
Reject(s) ==
    /\ pc[s] = "apply"
    /\ pc' = [pc EXCEPT ![s] = "unlock"]
    /\ UNCHANGED <<mu, stmt, inflight, seen>>
    /\ UNCHANGED <<tvars, evars, xvars>>

(* the row sequence is changed: a row appended, rows removed, or the first *)
(* of the selected rows of an UPDATE assigned                              *)
ApplyRows(s) ==
    /\ pc[s] = "apply"
    /\ inflight' = [inflight EXCEPT ![stmt[s].left] =
                      IF stmt[s].kind = "UPDATE" THEN "someRows" ELSE "rowsNotIndex"]
    /\ pc' = [pc EXCEPT ![s] = IF stmt[s].kind = "UPDATE" THEN "rest" ELSE "index"]
    /\ UNCHANGED <<mu, stmt, seen>>
    /\ UNCHANGED <<tvars, evars, xvars>>

(* the remaining selected rows of an UPDATE are assigned *)
ApplyRest(s) ==
    /\ pc[s] = "rest"
    /\ inflight' = [inflight EXCEPT ![stmt[s].left] = "rowsNotIndex"]
    /\ pc' = [pc EXCEPT ![s] = "index"]
    /\ UNCHANGED <<mu, stmt, seen>>
    /\ UNCHANGED <<tvars, evars, xvars>>

(* the unique indexes are brought in line with the rows *)
ApplyIndexes(s) ==
    /\ pc[s] = "index"
    /\ inflight' = [inflight EXCEPT ![stmt[s].left] = "none"]
    /\ pc' = [pc EXCEPT ![s] = "unlock"]
    /\ UNCHANGED <<mu, stmt, seen>>
    /\ UNCHANGED <<tvars, evars, xvars>>

(* the deferred table.Unlock(); the statement returns *)
Unlock(s) ==
    /\ pc[s] = "unlock" /\ stmt[s].kind \in WriteKinds
    /\ mu' = [mu EXCEPT ![stmt[s].left].w = NoSession]
    /\ pc' = [pc EXCEPT ![s] = "idle"]
    /\ stmt' = [stmt EXCEPT ![s] = NoStmt]
    /\ UNCHANGED <<inflight, seen>>
    /\ UNCHANGED <<tvars, evars, xvars>>

(* the session waits inside a lock call *)
Blocked(s) ==
    \/ pc[s] = "lock" /\ stmt[s].kind \in ReadKinds /\ ~CanRLock(stmt[s].left)
    \/ pc[s] = "lock2" /\ ~CanRLock(stmt[s].right)
    \/ pc[s] = "lock" /\ stmt[s].kind \in WriteKinds /\ ~CanLock(stmt[s].left)
    \/ pc[s] = "wait" /\ ~ReadersGone(stmt[s].left)

LockNext ==
    \E s \in Sessions :
        \/ \E st \in Statements : Begin(s, st)
        \/ RLock(s)
        \/ RLockRight(s)
        \/ Read(s)
        \/ RUnlock(s)
        \/ Lock(s)
        \/ LockAcquired(s)
        \/ Reject(s)
        \/ ApplyRows(s)
        \/ ApplyRest(s)
        \/ ApplyIndexes(s)
        \/ Unlock(s)

----------------------------------------------------------------------------
(* Engine sessions, the registry and the database directories.  A          *)
(* directory is known by its name under the base path; the Database loaded *)
(* from it carries the name written in its meta.json.                      *)

DbNames == {"db1", "testdb"}

Absent == "-"

NoDb == [Name |-> Absent, Path |-> Absent]

Out(st, err, touched) == [stmt |-> st, err |-> err, touched |-> touched]

(* bootstrap: a directory that does not exist gets the sample database,    *)
(* whose meta.json names it "testdb"                                       *)
EnsureDatabase(d, path) ==
    [d EXCEPT ![path] = IF d[path] = Absent THEN "testdb" ELSE d[path]]

RECURSIVE Bootstrapped(_, _)
Bootstrapped(d, paths) ==
    IF paths = {} THEN d
    ELSE LET path == CHOOSE x \in paths : TRUE
         IN  Bootstrapped(EnsureDatabase(d, path), paths \ {path})

(* engine.New(nil, registry) for every session, over an empty registry *)
EngineInit(paths) ==
    /\ disk = Bootstrapped([n \in DbNames |-> Absent], paths)
    /\ loaded = [n \in DbNames |-> NoDb]
    /\ db = [s \in Sessions |-> NoDb]
    /\ using = [s \in Sessions |-> "none"]
    /\ out = [s \in Sessions |-> Out("NONE", "none", Absent)]

LoadDatabase(d, name) == [Name |-> d[name], Path |-> name]

(* CREATE DATABASE name *)
CreateDatabase(s, name) ==
    LET err == IF loaded[name] # NoDb \/ disk[name] # Absent
                 THEN "AlreadyExists" ELSE "none"
    IN  /\ disk' = IF err = "none" THEN [disk EXCEPT ![name] = name] ELSE disk
        /\ out' = [out EXCEPT ![s] = Out("CREATE", err, Absent)]
        /\ UNCHANGED <<loaded, db, using>>
        /\ UNCHANGED <<tvars, lvars, xvars>>

(* the session reference is cleared when the current Database carries the  *)
(* name of the statement                                                    *)
Unload(cur, name) == IF cur # NoDb /\ cur.Name = name THEN NoDb ELSE cur

(* DROP DATABASE name *)
DropDatabase(s, name) ==
    LET err == IF disk[name] = Absent THEN "NotFound" ELSE "none"
    IN  /\ db' = [db EXCEPT ![s] = Unload(db[s], name)]
        /\ loaded' = [loaded EXCEPT ![name] = NoDb]
        /\ disk' = [disk EXCEPT ![name] = Absent]
        /\ using' = [using EXCEPT ![s] =
                       IF err = "none" /\ using[s] = name THEN "none" ELSE using[s]]
        /\ out' = [out EXCEPT ![s] = Out("DROP", err, Absent)]
        /\ UNCHANGED <<tvars, lvars, xvars>>

(* ALTER DATABASE name RENAME TO newName *)
AlterDatabase(s, name, newName) ==
    LET err == IF disk[name] = Absent THEN "NotFound"
               ELSE IF disk[newName] # Absent THEN "AlreadyExists"
               ELSE "none"
    IN  /\ db' = [db EXCEPT ![s] = Unload(db[s], name)]
        /\ loaded' = [loaded EXCEPT ![name] = NoDb]
        /\ disk' = IF err = "none"
                     THEN [disk EXCEPT ![name] = Absent, ![newName] = newName]
                     ELSE disk
        /\ using' = [using EXCEPT ![s] =
                       IF err = "none" /\ using[s] = name THEN "renamed" ELSE using[s]]
        /\ out' = [out EXCEPT ![s] = Out("ALTER", err, Absent)]
        /\ UNCHANGED <<tvars, lvars, xvars>>

(* what loading an existing directory can come to: the Database, or a      *)
(* manifest that cannot be read, a row that fails validation, an index     *)
(* that cannot be built                                                    *)
LoadOutcomes == {"none", "BadManifest", "InvalidRow", "IndexBuild"}

(* Registry.Get as USE sees it: the cached Database, or the directory      *)
(* loaded and its indexes built                                            *)
GetErr(name, outcome) ==
    IF loaded[name] # NoDb THEN "none"
    ELSE IF disk[name] = Absent THEN "NotFound"
    ELSE outcome

UseDatabaseAssignsAlways(s, name) ==
    \E outcome \in LoadOutcomes :
        LET err == GetErr(name, outcome)
            newDB == IF loaded[name] # NoDb THEN loaded[name]
                     ELSE LoadDatabase(disk, name)
        IN  /\ loaded' = IF err = "none" THEN [loaded EXCEPT ![name] = newDB] ELSE loaded
            /\ db' = [db EXCEPT ![s] = IF err = "none" THEN newDB ELSE NoDb]
            /\ using' = IF err = "none" THEN [using EXCEPT ![s] = name] ELSE using
            /\ out' = [out EXCEPT ![s] = Out("USE", err, Absent)]
            /\ UNCHANGED disk
            /\ UNCHANGED <<tvars, lvars, xvars>>

(* USE name: Registry.Get returns the cached Database or loads the         *)
(* directory; a failure leaves the session reference as it was             *)
UseDatabase(s, name) ==
    \E outcome \in LoadOutcomes :
        LET err == GetErr(name, outcome)
            newDB == IF loaded[name] # NoDb THEN loaded[name]
                     ELSE LoadDatabase(disk, name)
        IN  /\ loaded' = IF err = "none" THEN [loaded EXCEPT ![name] = newDB] ELSE loaded
            /\ db' = IF err = "none" THEN [db EXCEPT ![s] = newDB] ELSE db
            /\ using' = IF err = "none" THEN [using EXCEPT ![s] = name] ELSE using
            /\ out' = [out EXCEPT ![s] = Out("USE", err, Absent)]
            /\ UNCHANGED disk
            /\ UNCHANGED <<tvars, lvars, xvars>>

(* SELECT, INSERT, UPDATE or DELETE: planned and executed on the current   *)
(* Database, if there is one                                               *)
ExecuteDML(s) ==
    /\ out' = [out EXCEPT ![s] =
                 IF db[s] = NoDb THEN Out("DML", "NoDatabaseSelected", Absent)
                 ELSE Out("DML", "none", db[s].Path)]
    /\ UNCHANGED <<disk, loaded, db, using>>
    /\ UNCHANGED <<tvars, lvars, xvars>>

EngineNext ==
    \E s \in Sessions :
        \/ \E name \in DbNames : CreateDatabase(s, name)
        \/ \E name \in DbNames : DropDatabase(s, name)
        \/ \E name \in DbNames : \E newName \in DbNames \ {name} :
              AlterDatabase(s, name, newName)
        \/ \E name \in DbNames : UseDatabase(s, name)
        \/ ExecuteDML(s)

----------------------------------------------------------------------------
(* The registry, one call at a time.  A call takes the registry mutex,     *)
(* works on the loaded map, and performs its storage I/O before the        *)
(* deferred unlock.  A database's content is abstracted to the number of   *)
(* statements that have changed it.                                        *)

MaxWrites == 1

NoOp == [op |-> "none", name |-> Absent, newName |-> Absent]

Op(op, name, newName) == [op |-> op, name |-> name, newName |-> newName]

(* the call that returned last, and what it returned *)
Ret(op, err) == [op |-> op.op, name |-> op.name, err |-> err, cached |-> FALSE]

(* a name that DROP DATABASE removed is "dropped" until CREATE DATABASE    *)
(* makes it again, and "revived" once a rename has put a directory there   *)
Dropped(g, op, err) ==
    IF err # "none" THEN g
    ELSE IF op.op = "Drop" THEN [g EXCEPT ![op.name] = "dropped"]
    ELSE IF op.op = "Create" THEN [g EXCEPT ![op.name] = "no"]
    ELSE IF op.op = "Rename" /\ g[op.newName] = "dropped"
           THEN [g EXCEPT ![op.newName] = "revived"]
    ELSE g

(* NewRegistry: no database loaded, the mutex free *)
RegistryInit ==
    /\ rmu = [w |-> NoSession, r |-> {}]
    /\ rpc = [s \in Sessions |-> "idle"]
    /\ rop = [s \in Sessions |-> NoOp]
    /\ dcont = [n \in DbNames |-> 0]
    /\ mcont = [n \in DbNames |-> 0]
    /\ ret = Ret(NoOp, "none")
    /\ gone = [n \in DbNames |-> "no"]

(* r.mu.Lock() returns *)
RegistryLockUnguarded == TRUE

RegistryCanLock == rmu.w = NoSession /\ rmu.r = {}

(* r.mu.RLock() returns *)
RegistryCanRLock == rmu.w = NoSession

(* the call goes on to its storage I/O, holding the mutex *)
Enter(s, op, next) ==
    /\ rmu' = [rmu EXCEPT !.w = s]
    /\ rpc' = [rpc EXCEPT ![s] = next]
    /\ rop' = [rop EXCEPT ![s] = op]

(* the call returns err; the deferred r.mu.Unlock() runs *)
Return(s, err) ==
    /\ rmu' = [rmu EXCEPT !.w = NoSession]
    /\ rpc' = [rpc EXCEPT ![s] = "idle"]
    /\ rop' = [rop EXCEPT ![s] = NoOp]
    /\ ret' = Ret(rop[s], err)
    /\ gone' = Dropped(gone, rop[s], err)

(* Registry.Get: the cached Database is returned at once; otherwise the    *)
(* directory is to be loaded                                               *)
Get(s, name) ==
    /\ rpc[s] = "idle" /\ RegistryCanLock
    /\ IF loaded[name] # NoDb
         THEN /\ ret' = [Ret(Op("Get", name, Absent), "none") EXCEPT !.cached = TRUE]
              /\ UNCHANGED <<rmu, rpc, rop>>
         ELSE Enter(s, Op("Get", name, Absent), "io") /\ UNCHANGED ret
    /\ UNCHANGED <<disk, loaded, db, using, out, dcont, mcont, gone>>
    /\ UNCHANGED <<tvars, lvars, wvars, pvars, yvars>>

(* Registry.Get: LoadDatabase and BuildDatabaseIndexes, then the Database  *)
(* is put in the map                                                       *)
GetLoad(s) ==
    /\ rpc[s] = "io" /\ rop[s].op = "Get"
    /\ LET name == rop[s].name
           err == IF disk[name] = Absent THEN "NotFound" ELSE "none"
       IN  /\ loaded' = IF err = "none"
                          THEN [loaded EXCEPT ![name] = LoadDatabase(disk, name)]
                          ELSE loaded
           /\ mcont' = IF err = "none"
                         THEN [mcont EXCEPT ![name] = dcont[name]]
                         ELSE mcont
           /\ Return(s, err)
    /\ UNCHANGED <<disk, db, using, out, dcont>>
    /\ UNCHANGED <<tvars, lvars, wvars, pvars, yvars>>

(* Registry.Create: a loaded name is refused before the storage is asked *)
Create(s, name) ==
    /\ rpc[s] = "idle" /\ RegistryCanLock
    /\ IF loaded[name] # NoDb
         THEN ret' = Ret(Op("Create", name, Absent), "AlreadyExists")
              /\ UNCHANGED <<rmu, rpc, rop>>
         ELSE Enter(s, Op("Create", name, Absent), "io") /\ UNCHANGED ret
    /\ UNCHANGED <<disk, loaded, db, using, out, dcont, mcont, gone>>
    /\ UNCHANGED <<tvars, lvars, wvars, pvars, yvars>>

(* os.Stat of the directory of a database *)
StatNothing(d, name) == FALSE

Stat(d, name) == d[name] # Absent

(* JSONEngine.CreateDatabase: an existing directory is refused; otherwise  *)
(* the directory is made with a manifest that names it and lists no table  *)
CreateDir(s) ==
    /\ rpc[s] = "io" /\ rop[s].op = "Create"
    /\ LET name == rop[s].name
           err == IF Stat(disk, name) THEN "AlreadyExists" ELSE "none"
       IN  /\ disk' = IF err = "none" THEN [disk EXCEPT ![name] = name] ELSE disk
           /\ dcont' = IF err = "none" THEN [dcont EXCEPT ![name] = 0] ELSE dcont
           /\ Return(s, err)
    /\ UNCHANGED <<loaded, db, using, out, mcont>>
    /\ UNCHANGED <<tvars, lvars, wvars, pvars, yvars>>

(* Registry.Drop: delete(r.loaded, name) *)
EvictKept(name) == loaded

Evict(name) == [loaded EXCEPT ![name] = NoDb]

Drop(s, name) ==
    /\ rpc[s] = "idle" /\ RegistryCanLock
    /\ loaded' = Evict(name)
    /\ mcont' = [mcont EXCEPT ![name] = IF loaded'[name] = NoDb THEN 0 ELSE @]
    /\ Enter(s, Op("Drop", name, Absent), "io")
    /\ UNCHANGED <<disk, db, using, out, dcont, ret, gone>>
    /\ UNCHANGED <<tvars, lvars, wvars, pvars, yvars>>

(* JSONEngine.DropDatabase: os.RemoveAll of an existing directory *)
DropDir(s) ==
    /\ rpc[s] = "io" /\ rop[s].op = "Drop"
    /\ LET name == rop[s].name
           err == IF ~Stat(disk, name) THEN "NotFound" ELSE "none"
       IN  /\ disk' = [disk EXCEPT ![name] = Absent]
           /\ dcont' = [dcont EXCEPT ![name] = 0]
           /\ Return(s, err)
    /\ UNCHANGED <<loaded, db, using, out, mcont>>
    /\ UNCHANGED <<tvars, lvars, wvars, pvars, yvars>>

(* Registry.Rename: a loaded Database is saved and unloaded first *)
Rename(s, oldName, newName) ==
    /\ rpc[s] = "idle" /\ RegistryCanLock
    /\ Enter(s, Op("Rename", oldName, newName),
             IF loaded[oldName] # NoDb THEN "save" ELSE "io")
    /\ UNCHANGED <<disk, loaded, db, using, out, dcont, mcont, ret, gone>>
    /\ UNCHANGED <<tvars, lvars, wvars, pvars, yvars>>

(* SaveDatabase writes the Database in memory to the directory it was      *)
(* loaded from                                                             *)
SaveSkipped(d, m, name) == d

SaveDatabase(d, m, name) == [d EXCEPT ![name] = m[name]]

(* Registry.Rename: SaveDatabase, then delete(r.loaded, oldName) *)
RenameSave(s) ==
    /\ rpc[s] = "save" /\ rop[s].op = "Rename"
    /\ dcont' = SaveDatabase(dcont, mcont, rop[s].name)
    /\ loaded' = Evict(rop[s].name)
    /\ mcont' = [mcont EXCEPT ![rop[s].name] = 0]
    /\ rpc' = [rpc EXCEPT ![s] = "io"]
    /\ UNCHANGED <<disk, db, using, out, rmu, rop, ret, gone>>
    /\ UNCHANGED <<tvars, lvars, wvars, pvars, yvars>>

(* JSONEngine.RenameDatabase: the directory is moved and its manifest is   *)
(* rewritten with the new name                                             *)
RenameDir(s) ==
    /\ rpc[s] = "io" /\ rop[s].op = "Rename"
    /\ LET oldName == rop[s].name
           newName == rop[s].newName
           err == IF ~Stat(disk, oldName) THEN "NotFound"
                  ELSE IF Stat(disk, newName) THEN "AlreadyExists"
                  ELSE "none"
       IN  /\ disk' = IF err = "none"
                        THEN [disk EXCEPT ![oldName] = Absent, ![newName] = newName]
                        ELSE disk
           /\ dcont' = IF err = "none"
                         THEN [dcont EXCEPT ![oldName] = 0, ![newName] = dcont[oldName]]
                         ELSE dcont
           /\ Return(s, err)
    /\ UNCHANGED <<loaded, db, using, out, mcont>>
    /\ UNCHANGED <<tvars, lvars, wvars, pvars, yvars>>

(* Registry.SaveAll takes the read lock *)
SaveAll(s) ==
    /\ rpc[s] = "idle" /\ RegistryCanRLock
    /\ rmu' = [rmu EXCEPT !.r = @ \cup {s}]
    /\ rpc' = [rpc EXCEPT ![s] = "io"]
    /\ rop' = [rop EXCEPT ![s] = Op("SaveAll", Absent, Absent)]
    /\ UNCHANGED <<disk, loaded, db, using, out, dcont, mcont, ret, gone>>
    /\ UNCHANGED <<tvars, lvars, wvars, pvars, yvars>>

RECURSIVE SaveEach(_, _, _)
SaveEach(d, m, names) ==
    IF names = {} THEN d
    ELSE LET name == CHOOSE n \in names : TRUE
         IN  SaveEach(SaveDatabase(d, m, name), m, names \ {name})

(* Registry.SaveAll: every loaded Database is saved, then r.mu.RUnlock() *)
SaveAllDone(s) ==
    /\ rpc[s] = "io" /\ rop[s].op = "SaveAll"
    /\ dcont' = SaveEach(dcont, mcont, {n \in DbNames : loaded[n] # NoDb})
    /\ rmu' = [rmu EXCEPT !.r = @ \ {s}]
    /\ rpc' = [rpc EXCEPT ![s] = "idle"]
    /\ rop' = [rop EXCEPT ![s] = NoOp]
    /\ UNCHANGED <<disk, loaded, db, using, out, mcont, ret, gone>>
    /\ UNCHANGED <<tvars, lvars, wvars, pvars, yvars>>

(* a statement of some session changes the loaded Database in memory *)
ExecuteOn(name) ==
    /\ loaded[name] # NoDb /\ mcont[name] < MaxWrites
    /\ mcont' = [mcont EXCEPT ![name] = @ + 1]
    /\ UNCHANGED <<disk, loaded, db, using, out, rmu, rpc, rop, dcont, ret, gone>>
    /\ UNCHANGED <<tvars, lvars, wvars, pvars, yvars>>

RegistryNext ==
    \/ \E s \in Sessions :
        \/ \E name \in DbNames : Get(s, name)
        \/ GetLoad(s)
        \/ \E name \in DbNames : Create(s, name)
        \/ CreateDir(s)
        \/ \E name \in DbNames : Drop(s, name)
        \/ DropDir(s)
        \/ \E oldName \in DbNames : \E newName \in DbNames \ {oldName} :
              Rename(s, oldName, newName)
        \/ RenameSave(s)
        \/ RenameDir(s)
        \/ SaveAll(s)
        \/ SaveAllDone(s)
    \/ \E name \in DbNames : ExecuteOn(name)

----------------------------------------------------------------------------
(* The files of one database directory: the database manifest, and the     *)
(* manifest and the data file of one table.  A file is absent, whole, or   *)
(* partial (opened and truncated, its bytes not all written).              *)

DbMeta == "meta.json"

TableMeta == "users/meta.json"

TableData == "users/data.json"

Files == {DbMeta, TableMeta, TableData}

Write(file, how) == [file |-> file, how |-> how]

FilesInit ==
    /\ wdir = FALSE
    /\ wfile = [f \in Files |-> "absent"]
    /\ wtmp = [f \in Files |-> "absent"]
    /\ wjob = << >>
    /\ wstage = "idle"
    /\ crashed = FALSE

(* the process runs and no storage call is writing *)
Quiet == ~crashed /\ wjob = << >>

(* bootstrap.EnsureDatabase: a missing directory is made and its three     *)
(* files are written with os.WriteFile                                     *)
EnsureDatabaseFiles ==
    /\ Quiet /\ ~wdir
    /\ wdir' = TRUE
    /\ wjob' = <<Write(DbMeta, "WriteFile"), Write(TableMeta, "WriteFile"),
                 Write(TableData, "WriteFile")>>
    /\ UNCHANGED <<wfile, wtmp, wstage, crashed>>
    /\ UNCHANGED <<tvars, lvars, evars, rvars, pvars, yvars>>

(* JSONEngine.CreateDatabase: MkdirAll, then os.WriteFile of meta.json *)
CreateDatabaseFiles ==
    /\ Quiet /\ ~wdir
    /\ wdir' = TRUE
    /\ wjob' = <<Write(DbMeta, "WriteFile")>>
    /\ UNCHANGED <<wfile, wtmp, wstage, crashed>>
    /\ UNCHANGED <<tvars, lvars, evars, rvars, pvars, yvars>>

(* JSONEngine.RenameDatabase: the directory is moved, meta.json is read,   *)
(* and the manifest with the new name is written with os.WriteFile         *)
RenameDatabaseFiles ==
    /\ Quiet /\ wdir /\ wfile[DbMeta] = "whole"
    /\ wjob' = <<Write(DbMeta, "WriteFile")>>
    /\ UNCHANGED <<wdir, wfile, wtmp, wstage, crashed>>
    /\ UNCHANGED <<tvars, lvars, evars, rvars, pvars, yvars>>

(* JSONEngine.DropDatabase: os.RemoveAll *)
DropDatabaseFiles ==
    /\ Quiet /\ wdir
    /\ wdir' = FALSE
    /\ wfile' = [f \in Files |-> "absent"]
    /\ wtmp' = [f \in Files |-> "absent"]
    /\ UNCHANGED <<wjob, wstage, crashed>>
    /\ UNCHANGED <<tvars, lvars, evars, rvars, pvars, yvars>>

(* writer.SaveTable: the table manifest and the data file are written to   *)
(* temporary files that are renamed to the final names                     *)
SaveTableFiles ==
    /\ Quiet /\ wdir
    /\ wjob' = <<Write(TableMeta, "TempRename"), Write(TableData, "TempRename")>>
    /\ UNCHANGED <<wdir, wfile, wtmp, wstage, crashed>>
    /\ UNCHANGED <<tvars, lvars, evars, rvars, pvars, yvars>>

(* os.WriteFile opens the final path with O_TRUNC *)
OpenTruncate ==
    /\ ~crashed /\ wjob # << >> /\ Head(wjob).how = "WriteFile" /\ wstage = "idle"
    /\ wfile' = [wfile EXCEPT ![Head(wjob).file] = "partial"]
    /\ wstage' = "writing"
    /\ UNCHANGED <<wdir, wtmp, wjob, crashed>>
    /\ UNCHANGED <<tvars, lvars, evars, rvars, pvars, yvars>>

(* os.WriteFile has written every byte and closes the file *)
WriteAll ==
    /\ ~crashed /\ wjob # << >> /\ Head(wjob).how = "WriteFile" /\ wstage = "writing"
    /\ wfile' = [wfile EXCEPT ![Head(wjob).file] = "whole"]
    /\ wstage' = "idle"
    /\ wjob' = Tail(wjob)
    /\ UNCHANGED <<wdir, wtmp, crashed>>
    /\ UNCHANGED <<tvars, lvars, evars, rvars, pvars, yvars>>

(* the temporary sibling is opened *)
TempOpen ==
    /\ ~crashed /\ wjob # << >> /\ Head(wjob).how = "TempRename" /\ wstage = "idle"
    /\ wtmp' = [wtmp EXCEPT ![Head(wjob).file] = "partial"]
    /\ wstage' = "writing"
    /\ UNCHANGED <<wdir, wfile, wjob, crashed>>
    /\ UNCHANGED <<tvars, lvars, evars, rvars, pvars, yvars>>

(* the temporary sibling has every byte *)
TempWrite ==
    /\ ~crashed /\ wjob # << >> /\ Head(wjob).how = "TempRename" /\ wstage = "writing"
    /\ wtmp' = [wtmp EXCEPT ![Head(wjob).file] = "whole"]
    /\ wstage' = "written"
    /\ UNCHANGED <<wdir, wfile, wjob, crashed>>
    /\ UNCHANGED <<tvars, lvars, evars, rvars, pvars, yvars>>

(* os.Rename of the temporary sibling to the final name *)
TempRename ==
    /\ ~crashed /\ wjob # << >> /\ Head(wjob).how = "TempRename" /\ wstage = "written"
    /\ wfile' = [wfile EXCEPT ![Head(wjob).file] = wtmp[Head(wjob).file]]
    /\ wtmp' = [wtmp EXCEPT ![Head(wjob).file] = "absent"]
    /\ wstage' = "idle"
    /\ wjob' = Tail(wjob)
    /\ UNCHANGED <<wdir, crashed>>
    /\ UNCHANGED <<tvars, lvars, evars, rvars, pvars, yvars>>

(* the process stops where it is *)
Crash ==
    /\ ~crashed
    /\ crashed' = TRUE
    /\ UNCHANGED <<wdir, wfile, wtmp, wjob, wstage>>
    /\ UNCHANGED <<tvars, lvars, evars, rvars, pvars, yvars>>

(* the process is started again; the interrupted call is not resumed *)
Restart ==
    /\ crashed
    /\ crashed' = FALSE
    /\ wjob' = << >>
    /\ wstage' = "idle"
    /\ UNCHANGED <<wdir, wfile, wtmp>>
    /\ UNCHANGED <<tvars, lvars, evars, rvars, pvars, yvars>>

FilesNext ==
    \/ EnsureDatabaseFiles
    \/ CreateDatabaseFiles
    \/ RenameDatabaseFiles
    \/ DropDatabaseFiles
    \/ SaveTableFiles
    \/ OpenTruncate
    \/ WriteAll
    \/ TempOpen
    \/ TempWrite
    \/ TempRename
    \/ Crash
    \/ Restart

----------------------------------------------------------------------------
(* Functions applied on their own: the argument is drawn, the function is  *)
(* applied once                                                            *)

Nothing == [fn |-> "none"]

PureInit == input = Nothing /\ output = Nothing

----------------------------------------------------------------------------
(* Save and load of one table.  A JSON number is kept with all its digits  *)
(* in the file; encoding/json decodes a number into an interface{} as a    *)
(* float64.  The float64 mantissa (53 bits) is scaled down to MantissaBits *)
(* bits, and the integers drawn lie on both sides of 2^MantissaBits.       *)

MantissaBits == 3

RECURSIVE Pow2(_)
Pow2(k) == IF k = 0 THEN 1 ELSE 2 * Pow2(k - 1)

RECURSIVE BitLen(_)
BitLen(n) == IF n = 0 THEN 0 ELSE 1 + BitLen(n \div 2)

(* strconv.ParseFloat: the nearest float64, ties to the even mantissa *)
Float64(n) ==
    IF BitLen(n) <= MantissaBits THEN n
    ELSE LET scale == Pow2(BitLen(n) - MantissaBits)
             q == n \div scale
             r == n % scale
             up == 2 * r > scale \/ (2 * r = scale /\ q % 2 = 1)
         IN  (IF up THEN q + 1 ELSE q) * scale

(* integers an INT column can hold (strconv.Atoi yields a 64-bit int) *)
Int64Vals ==
    {0, 1, Pow2(MantissaBits) - 1, Pow2(MantissaBits), Pow2(MantissaBits) + 1,
     Pow2(MantissaBits) + 2, Pow2(MantissaBits) + 3}

ColumnType == [id |-> "INT", username |-> "TEXT", is_active |-> "BOOL"]

(* the columns as the table manifest lists them *)
ColumnMeta(i) ==
    [name |-> Columns[i].Name, type |-> ColumnType[Columns[i].Name],
     primary_key |-> Columns[i].PrimaryKey, unique |-> Columns[i].Unique,
     not_null |-> Columns[i].NotNull, auto_increment |-> Columns[i].AutoIncrement]

(* Row.MarshalJSON: the map is written as one JSON object; an integer is   *)
(* written with all its digits                                             *)
MarshalJSON(row) == row

(* Row.UnmarshalJSON: the object is decoded into map[string]interface{},   *)
(* every number as a float64                                               *)
UnmarshalJSON(object) ==
    [c \in DOMAIN object |->
        IF ColumnType[c] = "INT" THEN Float64(object[c]) ELSE object[c]]

(* NormalizeToInt64: a float64 with an integral value becomes that int64 *)
NormalizeToInt64(v) == v

(* validation.ValidateRow: the value of an INT column is brought back to   *)
(* an integer                                                              *)
Coerced(row) ==
    [c \in DOMAIN row |->
        IF ColumnType[c] = "INT" THEN NormalizeToInt64(row[c]) ELSE row[c]]

(* tables a session can have built: valid rows, no duplicate unique value  *)
SavableRows ==
    {rows \in UNION {[1..n ->
                        {MkRow({I}, {N}, A) : I \in Int64Vals, N \in NameVals,
                                              A \in Opt(BoolVals)}] :
                     n \in 0..MaxRows} :
        \A c \in UniqueCols : NoDuplicates(rows, c)}

TableOf(rows, last) ==
    [fn |-> "table", err |-> "none", columns |-> Columns,
     types |-> ColumnType, rows |-> rows, last |-> last]

(* writer.SaveTable: meta.json gets the columns in order and the counter,  *)
(* data.json the rows in order                                             *)
SaveTable ==
    /\ input.fn = "table" /\ output = Nothing
    /\ output' = [fn |-> "files",
                  meta |-> [columns |-> [i \in 1..Len(input.columns) |-> ColumnMeta(i)],
                            last_insert_id |-> input.last],
                  data |-> [i \in 1..Len(input.rows) |-> MarshalJSON(input.rows[i])]]
    /\ UNCHANGED input
    /\ UNCHANGED <<tvars, lvars, evars, rvars, wvars, yvars>>

(* loader.LoadTable: the columns are copied in the order of the manifest,  *)
(* the rows are decoded in the order of the data file and validated        *)
ReadTable(files) ==
    LET cols == [i \in 1..Len(files.meta.columns) |->
                   [Name |-> files.meta.columns[i].name,
                    PrimaryKey |-> files.meta.columns[i].primary_key,
                    Unique |-> files.meta.columns[i].unique,
                    NotNull |-> files.meta.columns[i].not_null,
                    AutoIncrement |-> files.meta.columns[i].auto_increment]]
        types == [c \in {files.meta.columns[i].name : i \in 1..Len(files.meta.columns)} |->
                    (CHOOSE m \in {files.meta.columns[i] : i \in 1..Len(files.meta.columns)} :
                        m.name = c).type]
        rows == [i \in 1..Len(files.data) |-> Coerced(UnmarshalJSON(files.data[i]))]
    IN  [fn |-> "table",
         err |-> IF \A i \in 1..Len(rows) : ValidateRow(rows[i]) THEN "none"
                 ELSE "ValidationError",
         columns |-> cols, types |-> types, rows |-> rows,
         last |-> files.meta.last_insert_id]

LoadTableFiles ==
    /\ output # Nothing /\ output.fn = "files"
    /\ output' = ReadTable(output)
    /\ UNCHANGED input
    /\ UNCHANGED <<tvars, lvars, evars, rvars, wvars, yvars>>

RoundTripInit ==
    /\ \E rows \in SavableRows : input = TableOf(rows, MaxOf(SeenIds(rows)))
    /\ output = Nothing

RoundTripNext == SaveTable \/ LoadTableFiles

----------------------------------------------------------------------------
(* Loading a database directory.  An entry of the directory is a plain     *)
(* file, a subdirectory with a readable table manifest, a subdirectory     *)
(* without meta.json, or a subdirectory whose meta.json does not parse.    *)

EntryNames == {"notes", "orders", "users"}

EntryKinds == {"file", "table", "noManifest", "badManifest"}

IsDir(kind) == kind # "file"

(* loader.LoadTable on a subdirectory: os.ReadFile and json.Unmarshal of   *)
(* its meta.json                                                           *)
LoadTableErr(kind) == IF kind = "table" THEN "none" ELSE "LoadTableFailed"

(* loader.LoadDatabase: every subdirectory is loaded as a table, and the   *)
(* first failure is returned                                               *)
LoadEntries(entries) ==
    LET dirs == {n \in DOMAIN entries : IsDir(entries[n])}
    IN  IF \E n \in dirs : LoadTableErr(entries[n]) # "none"
          THEN [fn |-> "database", err |-> "LoadTableFailed", tables |-> {}]
          ELSE [fn |-> "database", err |-> "none", tables |-> dirs]

LoadDatabaseDir ==
    /\ input.fn = "directory" /\ output = Nothing
    /\ output' = LoadEntries(input.entries)
    /\ UNCHANGED input
    /\ UNCHANGED <<tvars, lvars, evars, rvars, wvars, yvars>>

LoadDirInit ==
    /\ \E names \in SUBSET EntryNames : \E entries \in [names -> EntryKinds] :
          input = [fn |-> "directory", entries |-> entries]
    /\ output = Nothing

LoadDirNext == LoadDatabaseDir

----------------------------------------------------------------------------
(* JOIN of two tables on one column of each.  The tables here have no      *)
(* constraint on the join column, so a key can be absent or repeated.      *)

LeftTable == "orders"

RightTable == "payments"

LeftColumn == "user_id"

RightColumn == "payer_id"

JoinTypes == {"INNER", "LEFT", "RIGHT", "FULL"}

JoinKeys == {1, 2}

LeftRows ==
    {[c \in {"note"} \cup {LeftColumn : x \in K} |-> IF c = "note" THEN n ELSE CHOOSE x \in K : TRUE] :
        K \in Opt(JoinKeys), n \in NameVals}

RightRows ==
    {[c \in {RightColumn : x \in K} |-> CHOOSE x \in K : TRUE] : K \in Opt(JoinKeys)}

(* the i-th smallest position of S *)
Kth(S, i) == CHOOSE p \in S : Cardinality({q \in S : q < p}) = i - 1

(* the positions of S in increasing order *)
Ascending(S) == [k \in 1..Cardinality(S) |-> Kth(S, k)]

(* an index that keeps one position per value *)
buildJoinIndexOnePerValue(rows, columnName) ==
    [v \in KeysOf(rows, columnName) |-> <<Kth(SelEq(rows, columnName, v), 1)>>]

(* buildJoinIndex: value -> positions of the rows that carry it, in row     *)
(* order; a row without the column is skipped                               *)
buildJoinIndex(rows, columnName) ==
    [v \in KeysOf(rows, columnName) |-> Ascending(SelEq(rows, columnName, v))]

QualifiedName(tableName, colName) == tableName \o "." \o colName

(* combineRows: the columns of both rows under table-qualified names; the  *)
(* right row is set after the left one                                     *)
combineRows(leftRow, rightRow, leftTableName, rightTableName) ==
    LET leftNames == {QualifiedName(leftTableName, c) : c \in DOMAIN leftRow}
        rightNames == {QualifiedName(rightTableName, c) : c \in DOMAIN rightRow}
    IN  [q \in leftNames \cup rightNames |->
            IF q \in rightNames
              THEN rightRow[CHOOSE c \in DOMAIN rightRow : QualifiedName(rightTableName, c) = q]
              ELSE leftRow[CHOOSE c \in DOMAIN leftRow : QualifiedName(leftTableName, c) = q]]

NoRow == << >>

(* the build-side positions a probe row matches *)
Lookup(index, row, columnName) ==
    IF Has(row, columnName) /\ row[columnName] \in DOMAIN index
      THEN index[row[columnName]] ELSE << >>

(* the probe over the left rows from position i on *)
RECURSIVE Probe(_, _, _, _, _)
Probe(left, right, index, joinType, i) ==
    IF i > Len(left) THEN << >>
    ELSE LET m == Lookup(index, left[i], LeftColumn)
             emitted ==
                 IF m # << >>
                   THEN [k \in 1..Len(m) |->
                           combineRows(left[i], right[m[k]], LeftTable, RightTable)]
                 ELSE IF joinType \in {"LEFT", "FULL"}
                   THEN <<combineRows(left[i], NoRow, LeftTable, RightTable)>>
                 ELSE << >>
         IN  emitted \o Probe(left, right, index, joinType, i + 1)

(* the right rows no probe row matched, appended in build order *)
UnmatchedRight(left, right, index, joinType) ==
    LET hit == UNION {{Lookup(index, left[i], LeftColumn)[k] :
                          k \in 1..Len(Lookup(index, left[i], LeftColumn))} :
                      i \in 1..Len(left)}
        rest == Ascending((1..Len(right)) \ hit)
    IN  IF joinType \in {"RIGHT", "FULL"}
          THEN [k \in 1..Len(rest) |->
                  combineRows(NoRow, right[rest[k]], LeftTable, RightTable)]
          ELSE << >>

(* join.ExecuteJoin *)
ExecuteJoin(left, right, joinType) ==
    LET index == buildJoinIndex(right, RightColumn)
    IN  Probe(left, right, index, joinType, 1)
            \o UnmatchedRight(left, right, index, joinType)

JoinSelect ==
    /\ input.fn = "join" /\ output = Nothing
    /\ output' = [fn |-> "rows",
                  rows |-> ExecuteJoin(input.left, input.right, input.joinType)]
    /\ UNCHANGED input
    /\ UNCHANGED <<tvars, lvars, evars, rvars, wvars, yvars>>

JoinInit ==
    /\ \E left \in UNION {[1..n -> LeftRows] : n \in 0..MaxRows} :
       \E right \in UNION {[1..n -> RightRows] : n \in 0..MaxRows} :
       \E joinType \in JoinTypes :
          input = [fn |-> "join", left |-> left, right |-> right, joinType |-> joinType]
    /\ output = Nothing

JoinNext == JoinSelect

----------------------------------------------------------------------------
(* WHERE evaluation.  A cell or a literal is a Go interface{} value: nil,  *)
(* an integer, a float64, a string or a bool.  It is written here as its   *)
(* dynamic type t and a number n that orders the values of that type       *)
(* (a string's n is its rank in lexicographic order).                      *)

Nil == [t |-> "nil", n |-> 0]

WhereOps == {"=", "!=", "<>", "<", ">", "<=", ">="}

WhereColumns == {"age", "name"}

CellVals == [t : {"int", "float", "string"}, n : 1 .. 2] \cup {[t |-> "bool", n |-> 1]}

LiteralVals == {[t |-> "int", n |-> 1], [t |-> "string", n |-> 2], [t |-> "bool", n |-> 1]}

(* a row holds a value for some of the columns; a column without a value   *)
(* has no key in the map                                                   *)
WhereRows == UNION {[cs -> CellVals] : cs \in SUBSET WhereColumns}

Ident(name) == [kind |-> "identifier", name |-> name, v |-> Nil]

Lit(v) == [kind |-> "literal", name |-> "", v |-> v]

Operands == {Ident(c) : c \in WhereColumns} \cup {Lit(v) : v \in LiteralVals}

(* types.NormalizeToFloat: ok for int, int64 and float64 *)
NormalizeToFloat(v) == v.t \in {"int", "float"}

Ordering(op, a, b) ==
    CASE op = "="  -> a = b
      [] op \in {"!=", "<>"} -> a # b
      [] op = "<"  -> a < b
      [] op = ">"  -> a > b
      [] op = "<=" -> a <= b
      [] op = ">=" -> a >= b

(* types.CompareValues: numbers as float64, then strings, then == and !=   *)
(* of the two interface values, and false for an ordering operator         *)
CompareValues(left, op, right) ==
    IF NormalizeToFloat(left) /\ NormalizeToFloat(right)
      THEN Ordering(op, left.n, right.n)
      ELSE IF left.t = "string" /\ right.t = "string"
        THEN Ordering(op, left.n, right.n)
        ELSE CASE op = "=" -> left = right
               [] op \in {"!=", "<>"} -> left # right
               [] OTHER -> FALSE

(* the value of an operand on a row: row[colName] of a Go map, which is    *)
(* nil for a key the row does not have                                     *)
Resolve(operand, row) ==
    IF operand.kind = "literal" THEN operand.v
    ELSE IF operand.name \in DOMAIN row THEN row[operand.name] ELSE Nil

(* predicate.Build of a comparison: the row-filter compares the two        *)
(* operand values with CompareValues                                       *)
Build(expr, row) ==
    CompareValues(Resolve(expr.left, row), expr.op, Resolve(expr.right, row))

(* the filter of WHERE left op right applied to one row *)
Filter ==
    /\ input.fn = "where" /\ output = Nothing
    /\ output' = [fn |-> "where", match |-> Build(input.expr, input.row)]
    /\ UNCHANGED input
    /\ UNCHANGED <<tvars, lvars, evars, rvars, wvars, yvars>>

WhereInit ==
    /\ \E row \in WhereRows, left \in Operands, op \in WhereOps, right \in Operands :
          input = [fn |-> "where", row |-> row,
                   expr |-> [left |-> left, op |-> op, right |-> right]]
    /\ output = Nothing

WhereNext == Filter

----------------------------------------------------------------------------
(* INSERT statements as the parser hands them to the executor: a column    *)
(* list and a value list.  The lists are drawn from the values supplied    *)
(* for the schema's columns (I, N, A), a value for a column the schema     *)
(* does not have (K), and the number of values beyond or short of the      *)
(* columns (d).  Every literal has the type of its column, so              *)
(* ConvertLiteralToSchemaType returns it as it is.                         *)

UnknownColumn == "nickname"

UnknownVals == {"nick"}

ArityDeltas == {-1, 0, 1}

(* the named columns in the order of the statement: schema order, then the *)
(* unknown column                                                          *)
StmtColumns(I, N, A, K) ==
    LET known == SelectSeq([i \in 1..Len(Columns) |-> Columns[i].Name],
                           LAMBDA c : Has(MkRow(I, N, A), c))
    IN  IF K = {} THEN known ELSE Append(known, UnknownColumn)

StmtValue(I, N, A, K, c) ==
    IF c = UnknownColumn THEN CHOOSE v \in K : TRUE ELSE MkRow(I, N, A)[c]

InsertStatement(I, N, A, K, d) ==
    LET cols == StmtColumns(I, N, A, K)
    IN  [Columns |-> cols,
         Values  |-> [i \in 1..(Len(cols) + d) |->
                        IF i <= Len(cols) THEN StmtValue(I, N, A, K, cols[i])
                        ELSE "spare"]]

(* the row executeInsert builds: row[col.Value] is the converted literal   *)
(* for a column of the schema and the literal as it is for any other       *)
StmtRow(st) ==
    [c \in {st.Columns[i] : i \in 1..Len(st.Columns)} |->
        st.Values[CHOOSE i \in 1..Len(st.Columns) : st.Columns[i] = c]]

(* executor.executeInsert: the count check, then the row, then Insert *)
executeInsert(st) ==
    IF Len(st.Columns) # Len(st.Values)
      THEN /\ result' = Res("INSERT", "ArityMismatch", 0, FALSE, FALSE, FALSE)
           /\ UNCHANGED <<Rows, UniqueIndexes, LastInsertID, Dirty, maxSeen>>
           /\ UNCHANGED <<lvars, evars, xvars>>
      ELSE Insert(StmtRow(st))

InsertStmtNext ==
    \E I \in Opt(IdVals), N \in Opt(NameVals), A \in Opt(BoolVals),
       K \in Opt(UnknownVals), d \in ArityDeltas :
        /\ Len(StmtColumns(I, N, A, K)) + d >= 0
        /\ executeInsert(InsertStatement(I, N, A, K, d))

----------------------------------------------------------------------------
(* The column list of SELECT *.  The tables are those of the JOIN above;   *)
(* their schemas declare the columns in this order.                        *)

LeftSchema == <<LeftColumn, "note">>

RightSchema == <<RightColumn>>

(* the table-qualified names of a schema, in declared order *)
Qualified(tableName, schemaColumns) ==
    [i \in 1..Len(schemaColumns) |-> QualifiedName(tableName, schemaColumns[i])]

(* every key a joined row can have, in the order of sort.Strings *)
SortedNames == <<"orders.note", "orders.user_id", "payments.payer_id">>

(* extractColumnsFromRows: no column for no rows; otherwise the keys of    *)
(* the first row, sorted                                                   *)
extractColumnsFromRows(rows) ==
    IF Len(rows) = 0 THEN << >>
    ELSE SelectSeq(SortedNames, LAMBDA q : q \in DOMAIN rows[1])

(* formatSelectResult with proj.SelectAll: the schema's columns for a      *)
(* SELECT without JOIN, the columns extracted from the rows otherwise      *)
formatSelectResult(joined, rows) ==
    IF ~joined THEN LeftSchema ELSE extractColumnsFromRows(rows)

(* executeJoinSelect with the single field *: the left table's columns     *)
(* and then the right table's, qualified                                   *)
executeJoinSelect(rows) ==
    Qualified(LeftTable, LeftSchema) \o Qualified(RightTable, RightSchema)

SelectPaths == {"plan", "statement"}

(* SELECT * FROM orders [JOIN payments ON ...], executed from the plan     *)
(* node (formatSelectResult) or from the statement (executeJoinSelect)     *)
SelectAll ==
    /\ input.fn = "select" /\ output = Nothing
    /\ LET rows == IF input.joined
                     THEN ExecuteJoin(input.left, input.right, input.joinType)
                     ELSE input.left
       IN  output' = [fn |-> "result", rows |-> rows,
                      columns |-> IF input.path = "plan"
                                    THEN formatSelectResult(input.joined, rows)
                                    ELSE executeJoinSelect(rows)]
    /\ UNCHANGED input
    /\ UNCHANGED <<tvars, lvars, evars, rvars, wvars, yvars>>

SelectInit ==
    /\ \E left \in UNION {[1..n -> LeftRows] : n \in 0..MaxRows} :
       \E right \in UNION {[1..n -> RightRows] : n \in 0..MaxRows} :
       \E joinType \in JoinTypes, joined \in BOOLEAN, path \in SelectPaths :
          /\ path = "statement" => joined
          /\ ~joined => (right = << >> /\ joinType = "INNER")
          /\ input = [fn |-> "select", left |-> left, right |-> right,
                      joinType |-> joinType, joined |-> joined, path |-> path]
    /\ output = Nothing

SelectNext == SelectAll

----------------------------------------------------------------------------
(* Lexer and parser.  SQL text is written as the sequence of its words; a  *)
(* string literal is one word with its quotes.  No word of the model holds *)
(* a space or a dot.                                                       *)

Keywords == {"UPDATE", "DELETE", "FROM", "SET", "WHERE", "AND", "OR"}

StringContents == {"alice", "42"}

NumberWords == {"42", "7"}

Quoted(s) == "'" \o s \o "'"

Token(type, literal) == [Type |-> type, Literal |-> literal]

EOF == Token("EOF", "")

OperatorType(w) ==
    CASE w = "=" -> "EQUALS"
      [] w \in {"!=", "<>"} -> "NOT_EQUAL"
      [] w = "<" -> "LESS_THAN"
      [] w = ">" -> "GREATER_THAN"
      [] w = "<=" -> "LESS_EQUAL"
      [] w = ">=" -> "GREATER_EQUAL"

(* the token of one word: readString returns the text between the quotes,  *)
(* readNumber the digits, LookupIdent the keyword or IDENTIFIER            *)
LexWord(w) ==
    IF \E s \in StringContents : w = Quoted(s)
      THEN Token("STRING", CHOOSE s \in StringContents : w = Quoted(s))
    ELSE IF w \in NumberWords THEN Token("NUMBER", w)
    ELSE IF w \in WhereOps THEN Token(OperatorType(w), w)
    ELSE IF w = "(" THEN Token("PAREN_OPEN", w)
    ELSE IF w = ")" THEN Token("PAREN_CLOSE", w)
    ELSE IF w = "," THEN Token("COMMA", w)
    ELSE IF w \in Keywords THEN Token(w, w)
    ELSE IF w = "true" THEN Token("TRUE", w)
    ELSE IF w = "false" THEN Token("FALSE", w)
    ELSE Token("IDENTIFIER", w)

Tokenize(text) == [i \in 1..Len(text) |-> LexWord(text[i])]

(* p.curTok, with EOF past the last token, and the tokens after it *)
curTok(tokens) == IF tokens = << >> THEN EOF ELSE Head(tokens)

nextToken(tokens) == IF tokens = << >> THEN << >> ELSE Tail(tokens)

(* AST nodes *)
Identifier(value) ==
    [node |-> "Identifier", TokenLiteralValue |-> value, Value |-> value]

Literal(tokenLiteral, value, kind) ==
    [node |-> "Literal", TokenLiteralValue |-> tokenLiteral, Value |-> value,
     Kind |-> kind]

BinaryExpression(left, operator, right) ==
    [node |-> "BinaryExpression", Left |-> left, Operator |-> operator,
     Right |-> right]

LogicalExpression(left, operator, right) ==
    [node |-> "LogicalExpression", Left |-> left, Operator |-> operator,
     Right |-> right]

NoNode == [node |-> "nil"]

(* what a parse function returns: the node or an error, and the tokens     *)
(* from p.curTok on                                                        *)
Parsed(node, tokens) == [err |-> FALSE, node |-> node, rest |-> tokens]

ParseError(tokens) == [err |-> TRUE, node |-> NoNode, rest |-> tokens]

(* strconv.Atoi on the digits of the model *)
Atoi(w) == CASE w = "42" -> 42 [] w = "7" -> 7

isComparisonOperator(type) ==
    type \in {"EQUALS", "NOT_EQUAL", "LESS_THAN", "GREATER_THAN",
              "LESS_EQUAL", "GREATER_EQUAL"}

(* parseAtom: an identifier or a literal *)
parseAtom(tokens) ==
    LET tok == curTok(tokens)
    IN  CASE tok.Type = "IDENTIFIER" ->
               Parsed(Identifier(tok.Literal), nextToken(tokens))
          [] tok.Type = "STRING" ->
               Parsed(Literal(tok.Literal, tok.Literal, "STRING"), nextToken(tokens))
          [] tok.Type = "NUMBER" ->
               Parsed(Literal(tok.Literal, Atoi(tok.Literal), "INT"), nextToken(tokens))
          [] tok.Type = "TRUE" ->
               Parsed(Literal("true", TRUE, "BOOL"), nextToken(tokens))
          [] tok.Type = "FALSE" ->
               Parsed(Literal("false", FALSE, "BOOL"), nextToken(tokens))
          [] OTHER -> ParseError(tokens)

(* a result is taken once and then used: Then(r, F) is F applied to the    *)
(* value of r                                                              *)
Then(r, F(_)) == CHOOSE v \in {F(x) : x \in {r}} : TRUE

RECURSIVE parseOrExpression(_), parseOrLoop(_, _), parseAndExpression(_)
RECURSIVE parseAndLoop(_, _), parseComparisonExpression(_)
RECURSIVE parseOrLoopOneComparison(_, _)

(* parseComparisonExpression: a parenthesized expression, or an atom with  *)
(* an optional comparison operator and a second atom                       *)
parseComparisonExpression(tokens) ==
    IF curTok(tokens).Type = "PAREN_OPEN"
      THEN Then(parseOrExpression(nextToken(tokens)), LAMBDA expr :
               IF expr.err THEN expr
               ELSE IF curTok(expr.rest).Type # "PAREN_CLOSE" THEN ParseError(expr.rest)
               ELSE Parsed(expr.node, nextToken(expr.rest)))
      ELSE Then(parseAtom(tokens), LAMBDA left :
               IF left.err THEN left
               ELSE IF isComparisonOperator(curTok(left.rest).Type)
                 THEN Then(parseAtom(nextToken(left.rest)), LAMBDA right :
                          IF right.err THEN right
                          ELSE Parsed(BinaryExpression(left.node,
                                         curTok(left.rest).Literal, right.node),
                                      right.rest))
               ELSE left)

(* the loop of parseAndExpression: while p.curTok is AND *)
parseAndLoop(left, tokens) ==
    IF curTok(tokens).Type = "AND"
      THEN Then(parseComparisonExpression(nextToken(tokens)), LAMBDA right :
               IF right.err THEN right
               ELSE parseAndLoop(LogicalExpression(left, curTok(tokens).Literal,
                                                   right.node), right.rest))
      ELSE Parsed(left, tokens)

parseAndExpression(tokens) ==
    Then(parseComparisonExpression(tokens), LAMBDA left :
        IF left.err THEN left ELSE parseAndLoop(left.node, left.rest))

(* a loop that takes one comparison as the right operand of OR *)
parseOrLoopOneComparison(left, tokens) ==
    IF curTok(tokens).Type = "OR"
      THEN Then(parseComparisonExpression(nextToken(tokens)), LAMBDA right :
               IF right.err THEN right
               ELSE parseOrLoopOneComparison(
                        LogicalExpression(left, curTok(tokens).Literal, right.node),
                        right.rest))
      ELSE Parsed(left, tokens)

(* the loop of parseOrExpression: while p.curTok is OR *)
parseOrLoop(left, tokens) ==
    IF curTok(tokens).Type = "OR"
      THEN Then(parseAndExpression(nextToken(tokens)), LAMBDA right :
               IF right.err THEN right
               ELSE parseOrLoop(LogicalExpression(left, curTok(tokens).Literal,
                                                  right.node), right.rest))
      ELSE Parsed(left, tokens)

parseOrExpression(tokens) ==
    Then(parseAndExpression(tokens), LAMBDA left :
        IF left.err THEN left ELSE parseOrLoop(left.node, left.rest))

parseExpression(tokens) == parseOrExpression(tokens)

(* the optional WHERE clause of UPDATE and DELETE *)
parseWhere(tokens) ==
    IF curTok(tokens).Type = "WHERE"
      THEN parseExpression(nextToken(tokens))
      ELSE Parsed(NoNode, tokens)

DeleteStatement(tableName, where) ==
    [node |-> "DeleteStatement", TableName |-> tableName, Where |-> where]

UpdateStatement(tableName, updates, where) ==
    [node |-> "UpdateStatement", TableName |-> tableName, Updates |-> updates,
     Where |-> where]

(* parseDelete, from the token after DELETE *)
parseDelete(tokens) ==
    IF curTok(tokens).Type # "FROM" THEN ParseError(tokens)
    ELSE IF curTok(nextToken(tokens)).Type # "IDENTIFIER" THEN ParseError(tokens)
    ELSE Then(parseWhere(nextToken(nextToken(tokens))), LAMBDA where :
             IF where.err THEN where
             ELSE Parsed(DeleteStatement(Identifier(curTok(nextToken(tokens)).Literal),
                                         where.node), where.rest))

(* the SET loop of parseUpdate: column = literal, then a comma or the end; *)
(* stmt.Updates[colName] = lit                                             *)
RECURSIVE parseAssignments(_, _)
parseAssignments(updates, tokens) ==
    IF curTok(tokens).Type # "IDENTIFIER" THEN ParseError(tokens)
    ELSE IF curTok(nextToken(tokens)).Type # "EQUALS" THEN ParseError(tokens)
    ELSE Then(parseAtom(nextToken(nextToken(tokens))), LAMBDA val :
             IF val.err THEN val
             ELSE IF val.node.node # "Literal" THEN ParseError(tokens)
             ELSE Then([c \in (DOMAIN updates) \cup {curTok(tokens).Literal} |->
                           IF c = curTok(tokens).Literal THEN val.node
                           ELSE updates[c]],
                       LAMBDA set :
                           IF curTok(val.rest).Type = "COMMA"
                             THEN parseAssignments(set, nextToken(val.rest))
                             ELSE Parsed(set, val.rest)))

(* parseUpdate, from the token after UPDATE *)
parseUpdate(tokens) ==
    IF curTok(tokens).Type # "IDENTIFIER" THEN ParseError(tokens)
    ELSE IF curTok(nextToken(tokens)).Type # "SET" THEN ParseError(tokens)
    ELSE Then(parseAssignments(<< >>, nextToken(nextToken(tokens))), LAMBDA updates :
             IF updates.err THEN updates
             ELSE Then(parseWhere(updates.rest), LAMBDA where :
                      IF where.err THEN where
                      ELSE Parsed(UpdateStatement(Identifier(curTok(tokens).Literal),
                                                  updates.node, where.node),
                                  where.rest)))

(* Parser.Parse: dispatch on the first token *)
Parse(tokens) ==
    CASE curTok(tokens).Type = "UPDATE" -> parseUpdate(nextToken(tokens))
      [] curTok(tokens).Type = "DELETE" -> parseDelete(nextToken(tokens))
      [] OTHER -> ParseError(tokens)

(* String of an expression: an identifier prints its name, a literal its   *)
(* TokenLiteralValue, a binary or logical expression "(left op right)"     *)
RECURSIVE String(_)
String(expr) ==
    IF expr.node \in {"Identifier", "Literal"} THEN <<expr.TokenLiteralValue>>
    ELSE <<"(">> \o String(expr.Left) \o <<expr.Operator>>
                 \o String(expr.Right) \o <<")">>

WhereString(where) ==
    IF where = NoNode THEN << >> ELSE <<"WHERE">> \o String(where)

DeleteString(s) == <<"DELETE", "FROM", s.TableName.Value>> \o WhereString(s.Where)

(* the assignments of UpdateStatement.String from the i-th on, in the     *)
(* order the map is ranged over                                            *)
RECURSIVE AssignmentsString(_, _, _)
AssignmentsString(updates, order, i) ==
    IF i > Len(order) THEN << >>
    ELSE (IF i = 1 THEN << >> ELSE <<",">>)
            \o <<order[i], "=">> \o String(updates[order[i]])
            \o AssignmentsString(updates, order, i + 1)

UpdateString(s, order) ==
    <<"UPDATE", s.TableName.Value, "SET">> \o AssignmentsString(s.Updates, order, 1)
        \o WhereString(s.Where)

(* the orders in which range may visit the keys of a map *)
RangeOrders(m) ==
    {order \in [1..Cardinality(DOMAIN m) -> DOMAIN m] :
        \A i, j \in DOMAIN order : order[i] = order[j] => i = j}

(* the statements of the model.  A WHERE expression is a chain of operands *)
(* joined by AND and OR; an operand is a comparison, a bare atom, or a     *)
(* parenthesized pair of comparisons.                                      *)
MaxOperands == 3

LogicalOps == {"AND", "OR"}

Comparisons ==
    {<<"age", op, "42">> : op \in {"=", "<>", ">="}}
        \cup {<<"name", "=", "'alice'">>, <<"active">>}

InnerLeft == <<"age", "<", "7">>

InnerRight == <<"verified", "=", "true">>

ExprOperands ==
    {[paren |-> FALSE, words |-> c, inner |-> "-"] : c \in Comparisons}
        \cup {[paren |-> TRUE, words |-> << >>, inner |-> op] : op \in LogicalOps}

NoWhere == [operands |-> << >>, ops |-> << >>]

WhereShapes(maxOperands) ==
    {NoWhere} \cup
    UNION {{[operands |-> operands, ops |-> ops] :
               operands \in [1..n -> ExprOperands], ops \in [1..(n - 1) -> LogicalOps]} :
           n \in 1..maxOperands}

OperandText(o) ==
    IF o.paren THEN <<"(">> \o InnerLeft \o <<o.inner>> \o InnerRight \o <<")">>
    ELSE o.words

RECURSIVE ChainText(_, _)
ChainText(shape, i) ==
    IF i > Len(shape.operands) THEN << >>
    ELSE (IF i = 1 THEN << >> ELSE <<shape.ops[i - 1]>>)
            \o OperandText(shape.operands[i]) \o ChainText(shape, i + 1)

WhereText(shape) ==
    IF shape = NoWhere THEN << >> ELSE <<"WHERE">> \o ChainText(shape, 1)

Assignments == {<<"name", "=", "'alice'">>, <<"age", "=", "42">>, <<"active", "=", "true">>}

SetLists ==
    Assignments \cup
    {ab[1] \o <<",">> \o ab[2] :
        ab \in {p \in Assignments \X Assignments : p[1] # p[2]}}

SqlInputs ==
    {[fn |-> "sql", text |-> <<"DELETE", "FROM", "users">> \o WhereText(shape),
      shape |-> shape] : shape \in WhereShapes(MaxOperands)}
    \cup {[fn |-> "sql", text |-> <<"UPDATE", "users", "SET">> \o set \o WhereText(shape),
           shape |-> shape] : set \in SetLists, shape \in WhereShapes(1)}
    \cup {[fn |-> "sql", text |-> <<"DELETE", "users">>, shape |-> NoWhere]}

StatementOrders(s) ==
    IF s.node = "UpdateStatement" THEN RangeOrders(s.Updates) ELSE {<< >>}

StatementString(s, order) ==
    IF s.node = "UpdateStatement" THEN UpdateString(s, order) ELSE DeleteString(s)

(* lex and parse the text; print the AST; lex and parse what was printed *)
ParsePrintParse ==
    /\ input.fn = "sql" /\ output = Nothing
    /\ \E first \in {Parse(Tokenize(input.text))} :
          IF first.err
            THEN output' = [fn |-> "rejected"]
            ELSE \E order \in StatementOrders(first.node) :
                   \E printed \in {StatementString(first.node, order)} :
                      output' = [fn |-> "parsed", first |-> first.node,
                                 printed |-> printed,
                                 second |-> Parse(Tokenize(printed))]
    /\ UNCHANGED input
    /\ UNCHANGED <<tvars, lvars, evars, rvars, wvars, yvars>>

ParserInit ==
    /\ input \in SqlInputs
    /\ output = Nothing

ParserNext == ParsePrintParse

----------------------------------------------------------------------------
(* What a read hands to its caller.  The table users holds one row map     *)
(* (t.Rows[0]) and the unique-index map of its id column.  A Go map is a   *)
(* reference: returning it or storing it shares the one map, and a later   *)
(* assignment into it is seen through every holder.  rowData and idxData   *)
(* are the present contents of the two maps; a result is either the        *)
(* table's own map (alias) or a map filled from it (copy).                 *)

RowValues == [username : NameVals, is_active : BoolVals]

NoResult == [how |-> "none", val |-> [username |-> "alice", is_active |-> TRUE]]

RWMutexFree == [w |-> NoSession, r |-> {}]

At(at) == [at |-> at, set |-> [username |-> "alice", is_active |-> TRUE]]

AliasInit ==
    /\ rowData = [username |-> "alice", is_active |-> TRUE]
    /\ idxData = {1}
    /\ amu = RWMutexFree
    /\ apc = [s \in Sessions |-> At("idle")]
    /\ got = [s \in Sessions |-> NoResult]

(* t.RLock() of SelectByIndex, of a Scan or of a JOIN *)
TableRLock(s, kind) ==
    /\ apc[s].at = "idle" /\ amu.w = NoSession
    /\ amu' = [amu EXCEPT !.r = @ \cup {s}]
    /\ apc' = [apc EXCEPT ![s] = At(kind)]
    /\ UNCHANGED <<rowData, idxData, got>>
    /\ UNCHANGED <<tvars, lvars, evars, rvars, wvars, pvars, svars>>

(* Table.SelectByIndex: return t.Rows[rowIdx], the row map itself; the     *)
(* deferred RUnlock runs as it returns                                     *)
SelectByIndexResult(row) == [how |-> "alias", val |-> row]

SelectByIndex(s) ==
    /\ apc[s].at = "INDEX"
    /\ got' = [got EXCEPT ![s] = SelectByIndexResult(rowData)]
    /\ amu' = [amu EXCEPT !.r = @ \ {s}]
    /\ apc' = [apc EXCEPT ![s] = At("idle")]
    /\ UNCHANGED <<rowData, idxData>>
    /\ UNCHANGED <<tvars, lvars, evars, rvars, wvars, pvars, svars>>

(* Table.SelectAll / Table.Select of a Scan: the rows are copied *)
Scan(s) ==
    /\ apc[s].at = "SCAN"
    /\ got' = [got EXCEPT ![s] = [how |-> "copy", val |-> rowData]]
    /\ amu' = [amu EXCEPT !.r = @ \ {s}]
    /\ apc' = [apc EXCEPT ![s] = At("idle")]
    /\ UNCHANGED <<rowData, idxData>>
    /\ UNCHANGED <<tvars, lvars, evars, rvars, wvars, pvars, svars>>

(* buildJoinIndex on an indexed column: return idx.Data, the table's own   *)
(* index map, which the probe then reads                                   *)
JoinBuildIndex(s) ==
    /\ apc[s].at = "JOIN"
    /\ apc' = [apc EXCEPT ![s] = At("probe")]
    /\ UNCHANGED <<rowData, idxData, amu, got>>
    /\ UNCHANGED <<tvars, lvars, evars, rvars, wvars, pvars, svars>>

(* the JOIN returns rows that combineRows filled, and releases its locks *)
JoinReturn(s) ==
    /\ apc[s].at = "probe"
    /\ got' = [got EXCEPT ![s] = [how |-> "copy", val |-> rowData]]
    /\ amu' = [amu EXCEPT !.r = @ \ {s}]
    /\ apc' = [apc EXCEPT ![s] = At("idle")]
    /\ UNCHANGED <<rowData, idxData>>
    /\ UNCHANGED <<tvars, lvars, evars, rvars, wvars, pvars, svars>>

(* t.Lock() of an UPDATE that assigns both columns, or of an INSERT *)
TableLock(s, kind, set) ==
    /\ apc[s].at = "idle" /\ amu = RWMutexFree
    /\ amu' = [amu EXCEPT !.w = s]
    /\ apc' = [apc EXCEPT ![s] = [at |-> kind, set |-> set]]
    /\ UNCHANGED <<rowData, idxData, got>>
    /\ UNCHANGED <<tvars, lvars, evars, rvars, wvars, pvars, svars>>

(* the first assignment of the UPDATE into the row map *)
UpdateAssignFirst(s) ==
    /\ apc[s].at = "UPDATE"
    /\ rowData' = [rowData EXCEPT !.username = apc[s].set.username]
    /\ apc' = [apc EXCEPT ![s].at = "UPDATE2"]
    /\ UNCHANGED <<idxData, amu, got>>
    /\ UNCHANGED <<tvars, lvars, evars, rvars, wvars, pvars, svars>>

(* the second assignment of the UPDATE *)
UpdateAssignSecond(s) ==
    /\ apc[s].at = "UPDATE2"
    /\ rowData' = [rowData EXCEPT !.is_active = apc[s].set.is_active]
    /\ apc' = [apc EXCEPT ![s].at = "unlock"]
    /\ UNCHANGED <<idxData, amu, got>>
    /\ UNCHANGED <<tvars, lvars, evars, rvars, wvars, pvars, svars>>

(* an INSERT puts the new row's id into the unique-index map *)
InsertIndexEntry(s) ==
    /\ apc[s].at = "INSERT"
    /\ MaxOf(idxData) < MaxId
    /\ idxData' = idxData \cup {MaxOf(idxData) + 1}
    /\ apc' = [apc EXCEPT ![s].at = "unlock"]
    /\ UNCHANGED <<rowData, amu, got>>
    /\ UNCHANGED <<tvars, lvars, evars, rvars, wvars, pvars, svars>>

(* the deferred t.Unlock() *)
TableUnlock(s) ==
    /\ apc[s].at \in {"unlock", "INSERT"}
    /\ amu' = [amu EXCEPT !.w = NoSession]
    /\ apc' = [apc EXCEPT ![s] = At("idle")]
    /\ UNCHANGED <<rowData, idxData, got>>
    /\ UNCHANGED <<tvars, lvars, evars, rvars, wvars, pvars, svars>>

AliasNext ==
    \E s \in Sessions :
        \/ \E kind \in ReadKinds : TableRLock(s, kind)
        \/ SelectByIndex(s)
        \/ Scan(s)
        \/ JoinBuildIndex(s)
        \/ JoinReturn(s)
        \/ \E set \in RowValues : TableLock(s, "UPDATE", set)
        \/ TableLock(s, "INSERT", At("idle").set)
        \/ UpdateAssignFirst(s)
        \/ UpdateAssignSecond(s)
        \/ InsertIndexEntry(s)
        \/ TableUnlock(s)

----------------------------------------------------------------------------
(* Saving dirty tables while statements run.  The content of a table is    *)
(* identified by the number of statements that have changed it.  A save    *)
(* of a table takes the read lock, marshals schema and rows, and releases  *)
(* the lock; then it writes the files, and then marks the table clean.     *)

MaxStatements == 2

NoSave == [at |-> "idle", table |-> "users", copy |-> 0]

SaveInit ==
    /\ content = [t \in Tables |-> 0]
    /\ saved = [t \in Tables |-> 0]
    /\ dirtyFlag = [t \in Tables |-> FALSE]
    /\ saver = NoSave

(* an INSERT, UPDATE or DELETE that succeeds: under the table's write      *)
(* lock the rows change and MarkDirtyUnsafe sets the flag                  *)
Mutate(t) ==
    /\ content[t] < MaxStatements
    /\ content' = [content EXCEPT ![t] = @ + 1]
    /\ dirtyFlag' = [dirtyFlag EXCEPT ![t] = TRUE]
    /\ UNCHANGED <<saved, saver>>
    /\ UNCHANGED <<tvars, lvars, evars, rvars, wvars, pvars, avars>>

(* SaveTable of a dirty table, first part: under the read lock the schema  *)
(* and the rows are marshalled                                             *)
SaveTableMarshal(t) ==
    /\ saver.at = "idle" /\ dirtyFlag[t]
    /\ saver' = [at |-> "marshalled", table |-> t, copy |-> content[t]]
    /\ UNCHANGED <<content, saved, dirtyFlag>>
    /\ UNCHANGED <<tvars, lvars, evars, rvars, wvars, pvars, avars>>

(* second part: the temporary files are written and renamed *)
SaveTableWrite ==
    /\ saver.at = "marshalled"
    /\ saved' = [saved EXCEPT ![saver.table] = saver.copy]
    /\ saver' = [saver EXCEPT !.at = "written"]
    /\ UNCHANGED <<content, dirtyFlag>>
    /\ UNCHANGED <<tvars, lvars, evars, rvars, wvars, pvars, avars>>

(* a write or a rename fails: the error is returned, the flag stays *)
SaveTableFail ==
    /\ saver.at = "marshalled"
    /\ saver' = NoSave
    /\ UNCHANGED <<content, saved, dirtyFlag>>
    /\ UNCHANGED <<tvars, lvars, evars, rvars, wvars, pvars, avars>>

(* last part: the table is marked clean *)
MarkClean ==
    /\ saver.at = "written"
    /\ dirtyFlag' = [dirtyFlag EXCEPT ![saver.table] = FALSE]
    /\ saver' = NoSave
    /\ UNCHANGED <<content, saved>>
    /\ UNCHANGED <<tvars, lvars, evars, rvars, wvars, pvars, avars>>

SaveNext ==
    \/ \E t \in Tables : Mutate(t)
    \/ \E t \in Tables : SaveTableMarshal(t)
    \/ SaveTableWrite
    \/ SaveTableFail
    \/ MarkClean

----------------------------------------------------------------------------
(* Statements on one table *)

InsertRows == {MkRow(I, N, A) : I \in Opt(IdVals), N \in Opt(NameVals), A \in Opt(BoolVals)}

(* SET lists of one assignment, and the two-column list (id, username) *)
UpdateSets ==
    {upd \in InsertRows : Cardinality(DOMAIN upd) = 1}
        \cup {MkRow({i}, {n}, {}) : i \in {MaxId}, n \in {"bob"}}

InsertStmt == \E row \in InsertRows : Insert(row)

UpdateAllStmt ==
    \E upd \in UpdateSets : Update(SelAll(Rows), upd, {})

UpdateWhereStmt ==
    \E c \in ColNames : \E v \in ColVals(c) : \E upd \in UpdateSets :
        Update(SelEq(Rows, c, v), upd, {})

UpdateNullStmt ==
    \E v \in ColVals("id") : \E n \in ColNames :
        Update(SelEq(Rows, "id", v), MkRow({}, {}, {}), {n})

DeleteAllStmt == Delete(SelAll(Rows))

DeleteWhereStmt ==
    \E c \in ColNames : \E v \in ColVals(c) : Delete(SelEq(Rows, c, v))

TableNext ==
    \/ InsertStmt
    \/ UpdateAllStmt
    \/ UpdateWhereStmt
    \/ UpdateNullStmt
    \/ DeleteAllStmt
    \/ DeleteWhereStmt

Init == TableInit /\ LockInit /\ EngineInit({}) /\ RegistryInit /\ FilesInit /\ AliasInit /\ SaveInit /\ PureInit

Next == TableNext

Spec == Init /\ [][Next]_vars

(* concurrent sessions on two tables *)
LockSpecInit == LoadTable(<< >>, 0) /\ LockInit /\ EngineInit({}) /\ RegistryInit /\ FilesInit /\ AliasInit /\ SaveInit /\ PureInit

LockSpec == LockSpecInit /\ [][LockNext]_vars

(* engine sessions over the directories the bootstrap may have created *)
EngineSpecInit ==
    /\ LoadTable(<< >>, 0) /\ LockInit
    /\ \E paths \in SUBSET DbNames : EngineInit(paths)
    /\ RegistryInit /\ FilesInit /\ AliasInit /\ SaveInit /\ PureInit

EngineSpec == EngineSpecInit /\ [][EngineNext]_vars

(* registry calls of concurrent sessions over the same directories *)
RegistrySpec == EngineSpecInit /\ [][RegistryNext]_vars

(* storage calls writing the files of one database directory, with crashes *)
FilesSpec == Init /\ [][FilesNext]_vars

(* one JOIN of two tables *)
JoinSpecInit ==
    /\ LoadTable(<< >>, 0) /\ LockInit /\ EngineInit({}) /\ RegistryInit /\ FilesInit /\ AliasInit /\ SaveInit
    /\ JoinInit

JoinSpec == JoinSpecInit /\ [][JoinNext]_vars

(* one database directory loaded *)
LoadDirSpecInit ==
    /\ LoadTable(<< >>, 0) /\ LockInit /\ EngineInit({}) /\ RegistryInit /\ FilesInit /\ AliasInit /\ SaveInit
    /\ LoadDirInit

LoadDirSpec == LoadDirSpecInit /\ [][LoadDirNext]_vars

(* one table saved and loaded again *)
RoundTripSpecInit ==
    /\ LoadTable(<< >>, 0) /\ LockInit /\ EngineInit({}) /\ RegistryInit /\ FilesInit /\ AliasInit /\ SaveInit
    /\ RoundTripInit

RoundTripSpec == RoundTripSpecInit /\ [][RoundTripNext]_vars

(* one WHERE comparison applied to one row *)
WhereSpecInit ==
    /\ LoadTable(<< >>, 0) /\ LockInit /\ EngineInit({}) /\ RegistryInit /\ FilesInit /\ AliasInit /\ SaveInit
    /\ WhereInit

WhereSpec == WhereSpecInit /\ [][WhereNext]_vars

(* INSERT statements on one table, through the executor *)
InsertStmtSpec == Init /\ [][InsertStmtNext]_vars

(* one SELECT * over a table or a JOIN *)
SelectSpecInit ==
    /\ LoadTable(<< >>, 0) /\ LockInit /\ EngineInit({}) /\ RegistryInit /\ FilesInit /\ AliasInit /\ SaveInit
    /\ SelectInit

SelectSpec == SelectSpecInit /\ [][SelectNext]_vars

(* one statement lexed, parsed, printed and parsed again *)
ParserSpecInit ==
    /\ LoadTable(<< >>, 0) /\ LockInit /\ EngineInit({}) /\ RegistryInit /\ FilesInit /\ AliasInit /\ SaveInit
    /\ ParserInit

ParserSpec == ParserSpecInit /\ [][ParserNext]_vars

(* reads and writes of concurrent sessions on the maps of one table *)
AliasSpec == LockSpecInit /\ [][AliasNext]_vars

(* statements and saves on two tables *)
SaveSpec == LockSpecInit /\ [][SaveNext]_vars


(* sessions switching databases while directories are dropped *)
UseNext ==
    \E s \in Sessions : \E name \in DbNames :
        \/ UseDatabase(s, name)
        \/ DropDatabase(s, name)

UseSpec == EngineSpecInit /\ [][UseNext]_vars

----------------------------------------------------------------------------
(* Properties of the table operations *)

IndexMatchesRows(rows, idxs) ==
    \A c \in UniqueCols :
        /\ DOMAIN idxs[c] = KeysOf(rows, c)
        /\ \A v \in DOMAIN idxs[c] :
              /\ idxs[c][v] \in 1..Len(rows)
              /\ Has(rows[idxs[c][v]], c)
              /\ rows[idxs[c][v]][c] = v

Succeeded == result.op \in {"INSERT", "UPDATE", "DELETE"} /\ result.err = "none"

(* C1: after a successful INSERT, UPDATE or DELETE the key set of every    *)
(* unique index is the set of values present in its column, and every      *)
(* entry points at the row that holds its key.                             *)
C1_IndexMatchesRows == Succeeded => IndexMatchesRows(Rows, UniqueIndexes)

C1_Witness ==
    /\ result.op = "DELETE" /\ result.matched = 1 /\ Len(Rows) = 1
    /\ UniqueIndexes["id"][Rows[1]["id"]] = 1

(* C2: an UPDATE that fails a uniqueness or not-null check leaves the row  *)
(* sequence and the unique indexes as they were before the statement.      *)
C2_FailedUpdateChangesNothing ==
    [][(result'.op = "UPDATE" /\ result'.err # "none")
          => (Rows' = Rows /\ UniqueIndexes' = UniqueIndexes)]_vars

C2_Witness ==
    /\ result.op = "UPDATE" /\ result.err = "UniqueViolation"
    /\ result.matched = 1 /\ Len(Rows) = 2

C4_FailedInsertKeepsLastInsertID ==
    [][(result'.op = "INSERT" /\ result'.auto /\ result'.err # "none")
          => LastInsertID' = LastInsertID]_vars

(* C5: last_insert_id is at least every value that has ever appeared in    *)
(* the AUTO_INCREMENT column, so an auto-assigned value exceeds them all.  *)
C5_LastInsertIDCoversColumn == LastInsertID >= maxSeen

C7_NotNullColumnsPresent ==
    \A i \in 1..Len(Rows) : \A c \in NotNullCols : Has(Rows[i], c)

C7_Witness ==
    /\ result.op = "UPDATE" /\ result.err = "NotNullViolation"
    /\ Len(Rows) >= 1

----------------------------------------------------------------------------
(* Properties of the table locks *)

Reading(s) == stmt[s].kind \in ReadKinds /\ pc[s] \in {"read", "unlock"}

Writing(s) ==
    stmt[s].kind \in WriteKinds /\ pc[s] \in {"apply", "rest", "index", "unlock"}

C9_EveryStatementReturns ==
    (\E s \in Sessions : pc[s] # "idle")
        => \E s \in Sessions : pc[s] # "idle" /\ ~Blocked(s)

----------------------------------------------------------------------------
(* Properties of the engine sessions *)

----------------------------------------------------------------------------
(* Properties of DELETE *)

(* the selections a DELETE statement can make in the table as it stands *)
DeleteSelections ==
    {SelAll(Rows)} \cup UNION {{SelEq(Rows, c, v) : v \in ColVals(c)} : c \in ColNames}

(* the rows outside the selection, in their order *)
KeptInOrder(rows, sel) ==
    LET keep == (1..Len(rows)) \ sel
    IN  [i \in 1..Cardinality(keep) |-> rows[Kth(keep, i)]]

----------------------------------------------------------------------------
(* Properties of the registry *)

(* the name is neither in the loaded map nor on disk *)
Gone(d) == loaded[d] = NoDb /\ disk[d] = Absent

(* the last call to return was Registry.Get of d, and it failed *)
GetFailed(d) == ret.op = "Get" /\ ret.name = d => ret.err = "NotFound"

(* C11, as stated: a name that DROP DATABASE removed is neither loaded nor *)
(* on disk, and USE of it fails, for as long as no CREATE DATABASE of that *)
(* name has succeeded.                                                     *)
C11_GoneUntilCreate ==
    \A d \in DbNames : gone[d] # "no" => Gone(d) /\ GetFailed(d)

(* C11, amended: a name that DROP DATABASE removed is neither loaded nor   *)
(* on disk, and USE of it fails, for as long as neither a CREATE DATABASE  *)
(* of that name nor an ALTER DATABASE ... RENAME TO that name has          *)
(* succeeded.                                                              *)
C11_GoneUntilCreateOrRename ==
    \A d \in DbNames : gone[d] = "dropped" => Gone(d) /\ GetFailed(d)

C11_Witness ==
    \E d \in DbNames : gone[d] = "dropped" /\ ret = Ret(Op("Get", d, Absent), "NotFound")

(* session s returns from the storage I/O of a call of kind op *)
Returns(s, op) == rop[s].op = op /\ rpc[s] = "io" /\ rpc'[s] = "idle"

(* C12: between two evictions of a name the loaded map holds one Database  *)
(* for it: a Get loads the directory and installs the result only when no  *)
(* Database of that name is in the map, and an entry of the map is never   *)
(* replaced by another one, so every Get of the interval returns the same  *)
(* instance, whichever sessions call it.                                   *)
C12_OneInstancePerInterval ==
    [][/\ \A s \in Sessions :
             Returns(s, "Get") /\ ret'.err = "none" =>
                 /\ loaded[rop[s].name] = NoDb
                 /\ loaded'[rop[s].name] # NoDb
       /\ \A d \in DbNames :
             loaded[d] # NoDb => loaded'[d] \in {loaded[d], NoDb}]_vars

C12_Witness ==
    /\ ret.op = "Get" /\ ret.cached /\ ret.err = "none"
    /\ loaded[ret.name] # NoDb
    /\ \E s \in Sessions : rpc[s] # "idle"

(* session s is inside the storage I/O of a registry call *)
InStorage(s) == rpc[s] \in {"io", "save"}

(* session s holds the registry mutex, exclusively or shared *)
HoldsRegistry(s) == rmu.w = s \/ s \in rmu.r

(* C13: no session is inside the storage I/O of a registry call while it   *)
(* holds the registry mutex, so while a database is loaded, saved, renamed *)
(* or removed, a Get of a database already in the loaded map can take the  *)
(* mutex.                                                                  *)
C13_StorageOutsideMutex ==
    \A s \in Sessions :
        InStorage(s) =>
            /\ ~HoldsRegistry(s)
            /\ \A d \in DbNames : loaded[d] # NoDb => RegistryCanLock

(* a Registry.Create of n returns in this step, from the storage call or   *)
(* at once because n is loaded                                             *)
CreateReturns(n) ==
    /\ ret'.op = "Create" /\ ret'.name = n
    /\ \/ \E s \in Sessions : Returns(s, "Create") /\ rop[s].name = n
       \/ rpc' = rpc /\ ret' # ret

(* C14: CREATE DATABASE n fails, and leaves the directories and the loaded *)
(* map as they were, when n is loaded or its directory exists; otherwise   *)
(* it succeeds and makes the directory of n with a manifest that names n.  *)
(* While that directory exists a Get of n succeeds and yields a Database   *)
(* named as the manifest says.                                             *)
C14_CreateRefusesExisting ==
    [][/\ \A n \in DbNames :
             CreateReturns(n) =>
                 IF loaded[n] # NoDb \/ disk[n] # Absent
                   THEN /\ ret'.err = "AlreadyExists"
                        /\ disk' = disk /\ dcont' = dcont
                        /\ loaded' = loaded /\ mcont' = mcont
                   ELSE /\ ret'.err = "none"
                        /\ disk'[n] = n /\ dcont'[n] = 0
                        /\ \A m \in DbNames \ {n} : disk'[m] = disk[m]
                        /\ loaded' = loaded
       /\ \A s \in Sessions :
             Returns(s, "Get") /\ disk[rop[s].name] # Absent =>
                 /\ ret'.err = "none"
                 /\ loaded'[rop[s].name].Name = disk[rop[s].name]]_vars

C14_Witness ==
    /\ ret.op = "Create" /\ ret.err = "AlreadyExists"
    /\ loaded[ret.name] # NoDb

(* C15: when ALTER DATABASE a RENAME TO b succeeds, a is not loaded and    *)
(* has no directory, the directory of b exists with a manifest that names  *)
(* b and holds the content a had in memory when it was unloaded (a loaded  *)
(* a is saved before it is evicted), and b is not in the loaded map; a     *)
(* name enters the loaded map only by a Get of it.                         *)
C15_RenameMovesSavedState ==
    [][/\ \A s \in Sessions :
             rpc[s] = "save" /\ rpc'[s] = "io" =>
                 /\ dcont'[rop[s].name] = mcont[rop[s].name]
                 /\ loaded'[rop[s].name] = NoDb
       /\ \A s \in Sessions :
             Returns(s, "Rename") /\ ret'.err = "none" =>
                 /\ loaded'[rop[s].name] = NoDb
                 /\ disk'[rop[s].name] = Absent
                 /\ disk'[rop[s].newName] = rop[s].newName
                 /\ dcont'[rop[s].newName] = dcont[rop[s].name]
                 /\ loaded'[rop[s].newName] = NoDb
       /\ \A d \in DbNames :
             loaded[d] = NoDb /\ loaded'[d] # NoDb =>
                 \E s \in Sessions : Returns(s, "Get") /\ rop[s].name = d]_vars

C15_Witness ==
    /\ ret.op = "Rename" /\ ret.err = "none"
    /\ disk[ret.name] = Absent
    /\ \E b \in DbNames \ {ret.name} :
          disk[b] = b /\ dcont[b] > 0 /\ loaded[b] = NoDb

----------------------------------------------------------------------------
(* Properties of the files *)

(* C16: every write of a database manifest, table manifest or data file    *)
(* goes to a temporary sibling that is renamed into place, so whenever no  *)
(* write is in progress, a crash included, no file at a final path is      *)
(* partially written.                                                      *)
C16_NoPartialFileLeft ==
    crashed \/ wjob = << >> => \A f \in Files : wfile[f] # "partial"

----------------------------------------------------------------------------
(* Properties of save and load *)

(* C17: a table that was saved and loaded again has the same columns, in   *)
(* the same order with the same types and flags, and the same rows, in the *)
(* same order with the same content.                                       *)
C17_SaveLoadRoundTrip ==
    (output # Nothing /\ output.fn = "table") =>
        /\ output.err = "none"
        /\ output.columns = input.columns
        /\ output.types = input.types
        /\ output.rows = input.rows

(* C18: loading a database succeeds whatever else lies in its directory,   *)
(* and its tables are exactly the subdirectories that hold a readable      *)
(* table manifest; plain files and other subdirectories are ignored.       *)
C18_OtherEntriesIgnored ==
    (output # Nothing /\ output.fn = "database") =>
        /\ output.err = "none"
        /\ output.tables = {n \in DOMAIN input.entries : input.entries[n] = "table"}

----------------------------------------------------------------------------
(* Properties of JOIN *)

(* the pairs of a left and a right position whose keys are present and     *)
(* equal                                                                   *)
EqualKeys(left, right) ==
    {p \in (1..Len(left)) \X (1..Len(right)) :
        /\ Has(left[p[1]], LeftColumn) /\ Has(right[p[2]], RightColumn)
        /\ left[p[1]][LeftColumn] = right[p[2]][RightColumn]}

(* how often the relational definition of the join has the joined row r *)
Expected(left, right, joinType, r) ==
    LET pairs == EqualKeys(left, right)
        loneLeft == {i \in 1..Len(left) : \A p \in pairs : p[1] # i}
        loneRight == {j \in 1..Len(right) : \A p \in pairs : p[2] # j}
    IN  Cardinality({p \in pairs :
                        combineRows(left[p[1]], right[p[2]], LeftTable, RightTable) = r})
        + (IF joinType \in {"LEFT", "FULL"}
             THEN Cardinality({i \in loneLeft :
                     combineRows(left[i], NoRow, LeftTable, RightTable) = r})
             ELSE 0)
        + (IF joinType \in {"RIGHT", "FULL"}
             THEN Cardinality({j \in loneRight :
                     combineRows(NoRow, right[j], LeftTable, RightTable) = r})
             ELSE 0)

(* every joined row the definition can contain *)
Candidates(left, right) ==
    {combineRows(l, r, LeftTable, RightTable) :
        l \in {left[i] : i \in 1..Len(left)} \cup {NoRow},
        r \in {right[j] : j \in 1..Len(right)} \cup {NoRow}}

(* C20: the joined rows are, as a multiset, those of the relational        *)
(* definition: one row per pair of rows with equal, present keys; in LEFT  *)
(* and FULL also every left row without a partner, once, with no right     *)
(* column; in RIGHT and FULL also every right row without a partner, once, *)
(* with no left column.  A row without a key has no partner.               *)
C20_JoinIsRelational ==
    (output # Nothing /\ output.fn = "rows") =>
        /\ \A k \in 1..Len(output.rows) :
              output.rows[k] \in Candidates(input.left, input.right)
        /\ \A r \in Candidates(input.left, input.right) :
              Cardinality({k \in 1..Len(output.rows) : output.rows[k] = r})
                  = Expected(input.left, input.right, input.joinType, r)

C20_Witness ==
    /\ output # Nothing /\ output.fn = "rows"
    /\ input.joinType = "FULL"
    /\ \E i \in 1..Len(input.left) : ~Has(input.left[i], LeftColumn)
    /\ \E j \in 1..Len(input.right) : ~Has(input.right[j], RightColumn)
    /\ EqualKeys(input.left, input.right) # {}
    /\ Len(output.rows) = 3

----------------------------------------------------------------------------
(* Properties of WHERE evaluation *)

(* an operand of the comparison is an identifier of a column for which     *)
(* the row has no value                                                    *)
AbsentOperand(expr, row) ==
    \E operand \in {expr.left, expr.right} :
        operand.kind = "identifier" /\ operand.name \notin DOMAIN row

(* C21: a comparison with an operand that is an identifier resolving to an *)
(* absent value is false for every operator, != and <> included, so the    *)
(* row does not satisfy it.                                                *)
C21_AbsentNeverMatches ==
    (output # Nothing /\ output.fn = "where") =>
        (AbsentOperand(input.expr, input.row) => ~output.match)

----------------------------------------------------------------------------
(* Properties of INSERT statements *)

(* the statement breaks one of the three rules: lists of different length, *)
(* a column the schema does not have, or a NOT_NULL column that is not     *)
(* AUTO_INCREMENT left out                                                 *)
InvalidInsert(st) ==
    LET named == {st.Columns[i] : i \in 1..Len(st.Columns)}
    IN  \/ Len(st.Columns) # Len(st.Values)
        \/ \E c \in named : c \notin ColNames
        \/ \E c \in ColNames :
              Col(c).NotNull /\ ~Col(c).AutoIncrement /\ c \notin named

(* C22: an INSERT whose lists differ in length, or that names a column     *)
(* not in the schema, or that omits a NOT_NULL column that is not          *)
(* AUTO_INCREMENT, returns an error and leaves the table as it was.        *)
C22_InvalidInsertRejected ==
    [][\A I \in Opt(IdVals), N \in Opt(NameVals), A \in Opt(BoolVals),
          K \in Opt(UnknownVals), d \in ArityDeltas :
          ( /\ Len(StmtColumns(I, N, A, K)) + d >= 0
            /\ InvalidInsert(InsertStatement(I, N, A, K, d))
            /\ executeInsert(InsertStatement(I, N, A, K, d)) )
          => /\ result'.err # "none"
             /\ UNCHANGED <<Rows, UniqueIndexes, LastInsertID, Dirty>>]_vars

----------------------------------------------------------------------------
(* Properties of SELECT * *)

(* C23: SELECT * over a JOIN returns the left table's columns followed by  *)
(* the right table's, each as table.column, in schema order, whatever rows *)
(* are returned; SELECT * over one table returns the schema's columns in   *)
(* declared order, also for zero rows.                                     *)
C23_SelectAllColumns ==
    (output # Nothing /\ output.fn = "result") =>
        output.columns =
            IF input.joined
              THEN Qualified(LeftTable, LeftSchema) \o Qualified(RightTable, RightSchema)
              ELSE LeftSchema

----------------------------------------------------------------------------
(* Properties of the parser *)

(* C24: for a statement the parser accepts, the text its AST prints lexes  *)
(* and parses again without error, to an AST equal to the first; so also   *)
(* with string literals and with several assignments in an UPDATE.         *)
C24_PrintParseRoundTrip ==
    (output # Nothing /\ output.fn = "parsed") =>
        /\ ~output.second.err
        /\ output.second.node = output.first

(* the node of a comparison or bare atom given by its words *)
ComparisonNode(words) ==
    IF Len(words) = 1 THEN parseAtom(Tokenize(words)).node
    ELSE BinaryExpression(parseAtom(Tokenize(<<words[1]>>)).node, words[2],
                          parseAtom(Tokenize(<<words[3]>>)).node)

(* the node of an operand: a parenthesized pair is one unit *)
OperandNode(o) ==
    IF o.paren
      THEN LogicalExpression(ComparisonNode(InnerLeft), o.inner, ComparisonNode(InnerRight))
      ELSE ComparisonNode(o.words)

(* the tree the grammar OR < AND < comparison gives the operands i..j of a *)
(* chain: it splits at its last OR if it has one, and otherwise at its     *)
(* last AND                                                                *)
RECURSIVE GrammarTree(_, _, _)
GrammarTree(shape, i, j) ==
    IF i = j THEN OperandNode(shape.operands[i])
    ELSE LET ors == {k \in i..(j - 1) : shape.ops[k] = "OR"}
             split == IF ors # {} THEN MaxOf(ors) ELSE j - 1
         IN  LogicalExpression(GrammarTree(shape, i, split), shape.ops[split],
                               GrammarTree(shape, split + 1, j))

(* C25: AND binds tighter than OR, both associate to the left,             *)
(* comparisons bind tighter than both and a parenthesized sub-expression   *)
(* is one operand: the WHERE expression parses to the tree of the grammar. *)
C25_PrecedenceAndGrouping ==
    (output # Nothing /\ output.fn = "parsed" /\ input.shape # NoWhere) =>
        output.first.Where = GrammarTree(input.shape, 1, Len(input.shape.operands))

(* a AND b OR c parsed with OR at the top and the AND expression on its    *)
(* left                                                                    *)
C25_Witness ==
    /\ output # Nothing /\ output.fn = "parsed"
    /\ Len(input.shape.operands) = 3
    /\ input.shape.ops = <<"AND", "OR">>
    /\ \A i \in 1..3 : ~input.shape.operands[i].paren
    /\ output.first.Where.Operator = "OR"
    /\ output.first.Where.Left.node = "LogicalExpression"
    /\ output.first.Where.Left.Operator = "AND"
    /\ output.first.Where.Right.node # "LogicalExpression"

----------------------------------------------------------------------------
(* Properties of the results of reads *)

(* what the rows a session was handed read as now *)
ReadsAs(res) == IF res.how = "alias" THEN rowData ELSE res.val

(* C26: rows and unique-index maps handed out by a read are not the        *)
(* table's own maps: rows a session has been returned still read as they   *)
(* did when they were returned, whatever another session has written       *)
(* since, and the table's index map is read only by a session that holds   *)
(* the table's lock.                                                       *)
C26_NoReferenceEscapes ==
    /\ \A s \in Sessions : got[s].how # "none" => ReadsAs(got[s]) = got[s].val
    /\ \A s \in Sessions : apc[s].at = "probe" => s \in amu.r

----------------------------------------------------------------------------
(* Properties of the dirty flag *)

(* C27: at every point of every interleaving of statements and saves, a    *)
(* table whose content in memory differs from what was last written to     *)
(* its files has its dirty flag set, so that the next SaveAll writes it.   *)
C27_DirtyUntilSaved ==
    \A t \in Tables : content[t] # saved[t] => dirtyFlag[t]


----------------------------------------------------------------------------
(* C28: whenever a session has a current database, that Database is the    *)
(* one the registry holds in its loaded map under the name it was loaded   *)
(* by; no session keeps a Database that DROP DATABASE or ALTER DATABASE    *)
(* ... RENAME of another session has taken out of the map.                 *)
C28_CurrentIsRegistered ==
    \A s \in Sessions : db[s] # NoDb => loaded[db[s].Path] = db[s]

(* C29: a DROP DATABASE or ALTER DATABASE ... RENAME that returns an error *)
(* leaves the session's current database and the loaded map as they were.  *)
C29_FailedDropOrRenameChangesNothing ==
    [][\A s \in Sessions : \A name \in DbNames :
          (/\ \/ DropDatabase(s, name)
              \/ \E newName \in DbNames \ {name} : AlterDatabase(s, name, newName)
           /\ out'[s].err # "none")
          => db'[s] = db[s] /\ loaded' = loaded]_vars

(* C30: a USE that returns an error leaves the session's current database  *)
(* as it was and puts nothing in the loaded map; the name stays unloaded,  *)
(* so the next USE of it loads the directory again.                        *)
C30_FailedUseChangesNothing ==
    [][\A s \in Sessions : \A name \in DbNames :
          (UseDatabase(s, name) /\ out'[s].err # "none")
          => /\ db'[s] = db[s]
             /\ loaded' = loaded
             /\ loaded'[name] = NoDb]_vars

(* a session with a current database whose last USE, of a directory that   *)
(* exists, failed *)
C30_Witness ==
    \E s \in Sessions :
        /\ out[s].stmt = "USE"
        /\ out[s].err \in LoadOutcomes \ {"none"}
        /\ db[s] # NoDb

====
